---- MODULE Spec2Model ----
(***************************************************************************)
(* A model of the static prover of crosshairlib.py: the solver adapter     *)
(* (solve, check_assertion_fn), the knowledge-expansion loop               *)
(* (prove_assertion_fn), the binding environment (Z3Transformer.register), *)
(* the definition registry (FnInfo) and the pattern engine (matches,       *)
(* replace_pattern_vars, RewriteEngine, WrappedRewriteEngine).             *)
(*                                                                         *)
(* Each subsystem has its own specification over its own variables; the    *)
(* variables of the other subsystems are held at an idle value.            *)
(***************************************************************************)
EXTENDS Integers, Sequences, FiniteSets, TLC

VARIABLES
    \* ---- solve / check_assertion_fn (crosshairlib.py 783-857, 990-1011)
    assumptions,      \* the statements handed to solve, in the caller's order
    make_repro_case,  \* CH_REPRO in ('1','true')
    counterexample,   \* prooforacle.find_counterexample(...) is not None
    solver_outcome,   \* what solver.check() did: the result or the exception
    solve_pc,         \* "start" | "returned" | "raised"
    solve_op,         \* which entry point ran: "none" | "solve" | "check_assertion_fn"
    asserted,         \* the statements added to the solver, in order
    stmt_index,       \* the labels tracked: a set of positions of asserted
    core,             \* [labels, conclusion]: the unsat core read back
    ret,              \* the verdict returned: "True" | "False" | "None" | "-"
    report,           \* the report returned
    raised,           \* "none" | "Soundness" | "Z3Exception" | "Conflict"
    proved,           \* what prove_assertion_fn returned to check_assertion_fn
    repro_file,       \* repro.smt2: [exists, content], content a list of lines
    \* ---- prove_assertion_fn (crosshairlib.py 1013-1061)
    uses,             \* definition -> the definitions its assertions refer to
    concl_uses,       \* the definitions the conclusion refers to
    globals,          \* _pure_defs.get_fn('').get_assertions()
    lambdas,          \* the definitions whose assertions hold a lambda (0: the conclusion)
    lambda_at,        \* site of a lambda -> [lineno, col_offset] of its Lambda node
    refs,             \* env.refs: definition node -> logic constant
    support,          \* env.support
    baseline,         \* the statements collected so far
    handled,          \* the definitions handled
    iter,             \* the rounds of the loop run so far
    addedone,         \* the flag of the last round run
    rounds,           \* per round run, the definitions it handled
    prove_pc,         \* "compile" | "expand" | "score" | "done"
    \* ---- ModuleInfo / FnInfo (crosshairlib.py 454-530)
    functions,        \* ModuleInfo.functions: name -> FnInfo
    fndef_to_moduleinfo, \* the keys of _fndef_to_moduleinfo
    set_calls,        \* name -> the arguments of the set_definition calls on its FnInfo
    last_call,        \* [op, name, arg, raised]: the last call and its outcome
    ncalls,           \* the calls made
    \* ---- matches / replace_pattern_vars (crosshairlib.py 72-169)
    m_node,           \* the tree matched
    m_patt,           \* the pattern, after preprocess_pattern_vars
    m_res,            \* what matches returned: "True" | "False" | "-"
    m_bind,           \* the bindings after the call
    m_out,            \* replace_pattern_vars(pattern, bindings)
    m_pc,             \* "start" | "matched" | "replaced"
    \* ---- RewriteEngine / WrappedRewriteEngine (crosshairlib.py 284-331)
    rule_index,       \* engine -> its _index: hash -> list of rules
    adds,             \* the add calls made, oldest first: [engine, rule]
    rw_engine,        \* the engine rewrite was called on
    rw_in,            \* the tree given to rewrite
    rw_out,           \* [node, status]: what rewrite returned
    rw_again,         \* [node, status]: rewrite of that result
    rw_top,           \* rewrite_top's first pass over the candidates:
                      \* [cands, matched, bind, rule]
    rw_pc,            \* "idle" | "build" | "done" | "top"
    \* ---- Z3Transformer.visit_Compare (crosshairlib.py 659-673)
    cmp_node,         \* the Compare node: [left, ops, comparators]
    cmp_ret,          \* the term visit_Compare returned
    cmp_visited,      \* the operands visited, in the order of the visits
    cmp_pc,           \* "idle" | "start" | "done"
    \* ---- _merge_arg, z3apply, visit_Tuple (crosshairlib.py 553-566, 709-715)
    mrg_args,         \* the compiled elements: terms, starred terms
    mrg_env,          \* the tuple each free constant stands for
    mrg_ret,          \* the term returned
    mrg_pc,           \* "idle" | "start" | "tuple" | "call"
    \* ---- parse_pure (crosshairlib.py 532-544)
    parse_body,       \* module_ast.body: the top-level items
    parse_raised,     \* the exception parse_pure ended with, or "none"
    parse_pc,         \* "idle" | "start" | "done"
    \* ---- preprocess_pattern_vars (crosshairlib.py 72-92)
    pp_nodes,         \* the trees passed together
    pp_ret,           \* what the call returned: a tree, or a list of trees
    pp_pc,            \* "idle" | "start" | "done"
    \* ---- replace_pattern_vars on node objects (crosshairlib.py 94-106)
    rp_heap,          \* the node objects: address -> [kind, id, kids]
    rp_before,        \* the node objects before the call
    rp_template,      \* the address of the template
    rp_bindings,      \* variable -> the address of the bound subtree
    rp_ret,           \* [root, raised]: the tree returned, or the KeyError
    rp_pc,            \* "idle" | "start" | "done"
    \* ---- PureScopeTracker.resolve (crosshairlib.py 45-62)
    rs_node,          \* the Name resolved and what is known under its name
    rs_ret,           \* [kind, of]: what resolve returned or raised
    rs_pc,            \* "idle" | "start" | "done"
    \* ---- path_cover: the selection loop (crosshair/path_cover.py 101-117)
    cov_explored,     \* the paths explore_paths left in `paths`
    cov_paths,        \* paths: the paths not yet selected
    coverage_type,    \* "OPCODE" | "PATH"
    opcodes_found,    \* the offsets covered by the selected paths
    selected,         \* the paths selected, in order
    cov_pc            \* "idle" | "loop" | "break" | "done"

solveVars == <<assumptions, make_repro_case, counterexample, solver_outcome,
               solve_pc, solve_op, asserted, stmt_index, core, ret, report, raised,
               proved, repro_file>>

proveVars == <<uses, concl_uses, globals, lambdas, lambda_at, refs, support,
               baseline, handled, iter, addedone, rounds, prove_pc>>

registryVars == <<functions, fndef_to_moduleinfo, set_calls, last_call, ncalls>>

matchVars == <<m_node, m_patt, m_res, m_bind, m_out, m_pc>>

rewriteVars == <<rule_index, adds, rw_engine, rw_in, rw_out, rw_again, rw_top, rw_pc>>

compareVars == <<cmp_node, cmp_ret, cmp_visited, cmp_pc>>

\* the state of the expression compiler and the helpers around it
mergeVars == <<mrg_args, mrg_env, mrg_ret, mrg_pc>>

parseVars == <<parse_body, parse_raised, parse_pc>>

preprocessVars == <<pp_nodes, pp_ret, pp_pc>>

replaceVars == <<rp_heap, rp_before, rp_template, rp_bindings, rp_ret, rp_pc>>

resolveVars == <<rs_node, rs_ret, rs_pc>>

coverVars == <<cov_explored, cov_paths, coverage_type, opcodes_found, selected,
               cov_pc>>

exprVars == <<compareVars, mergeVars, parseVars, preprocessVars, replaceVars,
              resolveVars,
                   coverVars>>

vars == <<solveVars, proveVars, registryVars, matchVars, rewriteVars, exprVars>>

(***************************************************************************)
(* Bounds of the model and constants of the program.                       *)
(***************************************************************************)
\* assumptions[:120]
Cap == 120
\* lists of 0..SmallN and of Cap-1..Cap+Over scored statements
SmallN == 4
Over == 3
\* scores are 0..MaxScore
MaxScore == 3
\* 0..MaxRequired statements without a score
MaxRequired == 2
\* _MAX_DEPTH = 10
MaxDepth == 10
\* the registry holds the function definitions 1..NumDefs
NumDefs == 12
\* explore_paths leaves 0..MaxPaths paths, covering offsets among 1..MaxOffset
MaxPaths == 3
MaxOffset == 2
\* a Lambda node is on one of the lines 1..MaxLine of the source it was parsed
\* from
MaxLine == 2
\* the FunctionDef nodes 1..NumNodes of a module, and the calls made with them
NumNodes == 3
MaxCalls == 4

(***************************************************************************)
(* The idle values of each subsystem's variables.                          *)
(***************************************************************************)
ProveIdle ==
    /\ uses = <<>>
    /\ concl_uses = {}
    /\ globals = <<>>
    /\ lambdas = {}
    /\ lambda_at = <<>>
    /\ refs = <<>>
    /\ support = <<>>
    /\ baseline = <<>>
    /\ handled = {}
    /\ iter = 0
    /\ addedone = FALSE
    /\ rounds = <<>>
    /\ prove_pc = "idle"

RegistryIdle ==
    /\ functions = <<>>
    /\ fndef_to_moduleinfo = {}
    /\ set_calls = <<>>
    /\ last_call = [op |-> "-", name |-> "", arg |-> 0, raised |-> "none"]
    /\ ncalls = 0

\* a Name node with an empty identifier stands for "no tree"
NoTree == [kind |-> "Name", id |-> <<>>, kids |-> <<>>]

MatchIdle ==
    /\ m_node = NoTree
    /\ m_patt = NoTree
    /\ m_res = "-"
    /\ m_bind = <<>>
    /\ m_out = NoTree
    /\ m_pc = "idle"

\* no pass of rewrite_top over its candidates yet
NoPass == [cands |-> <<>>, matched |-> FALSE, bind |-> <<>>, rule |-> 0]

RewriteIdle ==
    /\ rule_index = <<>>
    /\ adds = <<>>
    /\ rw_engine = "-"
    /\ rw_in = NoTree
    /\ rw_out = [node |-> NoTree, status |-> "-"]
    /\ rw_again = [node |-> NoTree, status |-> "-"]
    /\ rw_top = NoPass
    /\ rw_pc = "idle"

\* a term with no operator stands for "no term"
NoTerm == [op |-> "", val |-> <<>>, args |-> <<>>]

CompareIdle ==
    /\ cmp_node = [left |-> NoTerm, ops |-> <<>>, comparators |-> <<>>]
    /\ cmp_ret = NoTerm
    /\ cmp_visited = <<>>
    /\ cmp_pc = "idle"

MergeIdle ==
    /\ mrg_args = <<>>
    /\ mrg_env = <<>>
    /\ mrg_ret = NoTerm
    /\ mrg_pc = "idle"

ParseIdle ==
    /\ parse_body = <<>>
    /\ parse_raised = "none"
    /\ parse_pc = "idle"

PreprocessIdle ==
    /\ pp_nodes = <<>>
    /\ pp_ret = <<>>
    /\ pp_pc = "idle"

ReplaceIdle ==
    /\ rp_heap = <<>>
    /\ rp_before = <<>>
    /\ rp_template = 0
    /\ rp_bindings = <<>>
    /\ rp_ret = [root |-> 0, raised |-> FALSE]
    /\ rp_pc = "idle"

ResolveIdle ==
    /\ rs_node = <<>>
    /\ rs_ret = [kind |-> "-", of |-> "-"]
    /\ rs_pc = "idle"

CoverIdle ==
    /\ cov_explored = <<>>
    /\ cov_paths = <<>>
    /\ coverage_type = "-"
    /\ opcodes_found = {}
    /\ selected = <<>>
    /\ cov_pc = "idle"

ExprIdle ==
    /\ CompareIdle
    /\ MergeIdle
    /\ ParseIdle
    /\ PreprocessIdle
    /\ ReplaceIdle
    /\ ResolveIdle
    /\ CoverIdle

SolveIdle ==
    /\ assumptions = <<>>
    /\ make_repro_case = FALSE
    /\ counterexample = FALSE
    /\ solver_outcome = [kind |-> "-", value |-> "-"]
    /\ solve_pc = "idle"
    /\ solve_op = "none"
    /\ asserted = <<>>
    /\ stmt_index = {}
    /\ core = [labels |-> {}, conclusion |-> FALSE]
    /\ ret = "-"
    /\ report = <<>>
    /\ raised = "none"
    /\ proved = "-"
    /\ repro_file = [exists |-> FALSE, content |-> <<>>]

(***************************************************************************)
(* Sequences.                                                              *)
(***************************************************************************)
Min(a, b) == IF a <= b THEN a ELSE b

Take(s, k) == SubSeq(s, 1, Min(k, Len(s)))

Range(s) == {s[i] : i \in 1..Len(s)}

(***************************************************************************)
(* solve: the statements asserted.                                         *)
(* A statement is [id, scored, score, src]: its identity, whether its      *)
(* score is not None, the score, and whether it has a src_ast.             *)
(***************************************************************************)
RequiredOf(as) == SelectSeq(as, LAMBDA a : ~a.scored)

ScoredOf(as) == SelectSeq(as, LAMBDA a : a.scored)

\* the statements of s whose score is k, in the order of s
WithScore(s, k) == SelectSeq(s, LAMBDA a : a.score = k)

\* list.sort(key=lambda a: a.score): a stable ascending sort, score by score
RECURSIVE SortFrom(_, _)
SortFrom(s, k) ==
    IF k > MaxScore THEN <<>> ELSE WithScore(s, k) \o SortFrom(s, k + 1)

SortByScore(s) == SortFrom(s, 0)

Truncate(s) == Take(s, Cap)

\* a variant that truncates the whole list instead of the scored part
SolveAsserted_TruncateAll(as) ==
    Truncate(RequiredOf(as) \o SortByScore(ScoredOf(as)))

SolveAsserted(as) == RequiredOf(as) \o Truncate(SortByScore(ScoredOf(as)))

\* the labels 'assumption{idx}' of tracked mode, as the positions 1..n; repro
\* mode tracks nothing
SolveStmtIndex(repro, added) == IF repro THEN {} ELSE 1..Len(added)

(***************************************************************************)
(* solve: the solver's answer and the verdict.                             *)
(* An outcome is [kind, value]: kind is "unsat", "sat", "unknown" or       *)
(* "exception", value is the Z3Exception's value.                          *)
(***************************************************************************)
Outcomes ==
    {[kind |-> k, value |-> "-"] : k \in {"unsat", "sat", "unknown"}}
    \cup {[kind |-> "exception", value |-> v] : v \in {"canceled", "other"}}

NoCore == [labels |-> {}, conclusion |-> FALSE]

\* the cores the solver may hand back for the tracked labels
Cores(index) ==
    {[labels |-> l, conclusion |-> c] :
        l \in {{}, index} \cup {{i} : i \in index \cap {1, Cap}},
        c \in BOOLEAN} \ {NoCore}

\* the core solve reads: only on unsat, only in tracked mode
SolveCore(repro, outcome, solverCore) ==
    IF outcome.kind = "unsat" /\ ~repro THEN solverCore ELSE NoCore

\* a variant that looks for an empty core instead of the missing label
SoundnessFailure_EmptyCore(repro, outcome, c) ==
    outcome.kind = "unsat" /\ ~repro /\ c.labels = {} /\ ~c.conclusion

SoundnessFailure(repro, outcome, c) ==
    outcome.kind = "unsat" /\ ~repro /\ ~c.conclusion

\* what the try block leaves: the exception raised ("none": none) and ret
SolveRaised(repro, outcome, c) ==
    IF SoundnessFailure(repro, outcome, c) THEN "Soundness"
    ELSE IF outcome.kind = "exception" /\ outcome.value /= "canceled"
         THEN "Z3Exception"
    ELSE "none"

\* a variant without the branch for a satisfiable answer
SolveRet_NoSatBranch(repro, outcome, c) ==
    IF SolveRaised(repro, outcome, c) /= "none" THEN "-"
    ELSE IF outcome.kind = "unsat" THEN "True"
    ELSE "None"

SolveRet(repro, outcome, c) ==
    IF SolveRaised(repro, outcome, c) /= "none" THEN "-"
    ELSE IF outcome.kind = "unsat" THEN "True"
    ELSE IF outcome.kind = "sat" THEN "False"
    ELSE "None"

\* [(unparse(a.src_ast), k in core) for k, a in stmt_index.items() if a.src_ast]
ReportRows(added, index, c) ==
    SelectSeq([i \in 1..Len(added) |->
                  [id |-> added[i].id, incore |-> i \in c.labels,
                   kept |-> i \in index /\ added[i].src]],
              LAMBDA r : r.kept)

SolveReport(repro, added, c) ==
    LET rows == ReportRows(added, SolveStmtIndex(repro, added), c)
    IN  [j \in 1..Len(rows) |-> [id |-> rows[j].id, incore |-> rows[j].incore]]

(***************************************************************************)
(* solve: the scratch file repro.smt2.                                     *)
(* A line is [line, of]: the assertion of statement `of` (0: the negated   *)
(* conclusion), or a directive.                                            *)
(***************************************************************************)
NoFile == [exists |-> FALSE, content |-> <<>>]

\* solver.sexpr() in repro mode: the assumptions added, then Not(conclusion)
SolverSexpr(added) ==
    [i \in 1..Len(added) |-> [line |-> "assert", of |-> added[i].id]]
    \o <<[line |-> "assert", of |-> 0]>>

\* fh.write(solver.sexpr()); fh.write("\n(check-sat)\n(get-model)\n")
ReproCase(added) ==
    SolverSexpr(added)
    \o <<[line |-> "check-sat", of |-> 0], [line |-> "get-model", of |-> 0]>>

\* with open('repro.smt2', 'w') as fh: the file after solve; an exception of
\* the try block leaves before the file is opened
SolveFile(file, repro, added, exc) ==
    IF exc /= "none" THEN file
    ELSE [exists |-> TRUE,
          content |-> IF repro THEN ReproCase(added) ELSE <<>>]

\* the file before the run: none, an empty one, the case of an earlier run
OldFiles ==
    {NoFile, [exists |-> TRUE, content |-> <<>>],
     [exists |-> TRUE, content |-> ReproCase(<<[id |-> 1]>>)]}

(***************************************************************************)
(* The inputs of solve: lists of nreq required and nsc scored statements,  *)
(* interleaved pairwise from the front (a scored one first), the scores    *)
(* following the pattern (a*i + 1) % (MaxScore + 1).                       *)
(***************************************************************************)
ScoredCounts == (0..SmallN) \cup ((Cap - 1)..(Cap + Over))

IsRequiredAt(i, nreq, nsc) ==
    IF i <= 2 * Min(nreq, nsc) THEN i % 2 = 0 ELSE nreq > nsc

Statement(i, nreq, nsc, a) ==
    [id |-> i,
     scored |-> ~IsRequiredAt(i, nreq, nsc),
     score |-> IF IsRequiredAt(i, nreq, nsc) THEN 0
               ELSE (a * i + 1) % (MaxScore + 1),
     src |-> i % 3 /= 0]

StatementLists ==
    {[i \in 1..(nreq + nsc) |-> Statement(i, nreq, nsc, a)] :
        nreq \in 0..MaxRequired, nsc \in ScoredCounts, a \in {0, 1, 3}}

SolveInit ==
    /\ assumptions \in StatementLists
    /\ make_repro_case \in BOOLEAN
    /\ counterexample \in BOOLEAN
    /\ solver_outcome = [kind |-> "-", value |-> "-"]
    /\ solve_pc = "start"
    /\ solve_op = "none"
    /\ asserted = <<>>
    /\ stmt_index = {}
    /\ core = NoCore
    /\ ret = "-"
    /\ report = <<>>
    /\ raised = "none"
    /\ proved = "-"
    /\ repro_file \in OldFiles
    /\ ProveIdle
    /\ RegistryIdle
    /\ MatchIdle
    /\ RewriteIdle
    /\ ExprIdle

\* solve(assumptions, conclusion, oracle), the solver answering outcome and,
\* when asked for it, solverCore
Solve(outcome, solverCore) ==
    /\ solve_pc = "start"
    /\ LET added == SolveAsserted(assumptions)
           c == SolveCore(make_repro_case, outcome, solverCore)
           exc == SolveRaised(make_repro_case, outcome, c)
       IN  /\ asserted' = added
           /\ stmt_index' = SolveStmtIndex(make_repro_case, added)
           /\ core' = c
           /\ raised' = exc
           /\ ret' = SolveRet(make_repro_case, outcome, c)
           /\ report' = IF exc = "none"
                        THEN SolveReport(make_repro_case, added, c) ELSE <<>>
           /\ solve_pc' = IF exc = "none" THEN "returned" ELSE "raised"
           /\ repro_file' = SolveFile(repro_file, make_repro_case, added, exc)
    /\ solver_outcome' = outcome
    /\ solve_op' = "solve"
    /\ UNCHANGED <<assumptions, make_repro_case, counterexample, proved>>
    /\ UNCHANGED <<proveVars, registryVars, matchVars, rewriteVars, exprVars>>

\* a variant that does not compare the verdict with the counterexample
CheckRaised_NoConflict(cex, exc, verdict) == exc

\* what check_assertion_fn does with the prover's answer
CheckRaised(cex, exc, verdict) ==
    IF exc /= "none" THEN exc
    ELSE IF cex /\ verdict = "True" THEN "Conflict"
    ELSE "none"

CheckRet(cex, exc, verdict) ==
    IF CheckRaised(cex, exc, verdict) /= "none" THEN "-"
    ELSE IF cex THEN "False"
    ELSE verdict

CheckReport(cex, exc, verdict, rep) ==
    IF CheckRaised(cex, exc, verdict) /= "none" \/ cex THEN <<>> ELSE rep

\* check_assertion_fn(conclusion_fn, conclusion_ast, oracle): the prover hands
\* its statements to solve and returns solve's answer
CheckAssertionFn(outcome, solverCore) ==
    /\ solve_pc = "start"
    /\ LET added == SolveAsserted(assumptions)
           c == SolveCore(make_repro_case, outcome, solverCore)
           exc == SolveRaised(make_repro_case, outcome, c)
           verdict == SolveRet(make_repro_case, outcome, c)
           rep == SolveReport(make_repro_case, added, c)
       IN  /\ asserted' = added
           /\ stmt_index' = SolveStmtIndex(make_repro_case, added)
           /\ core' = c
           /\ proved' = verdict
           /\ raised' = CheckRaised(counterexample, exc, verdict)
           /\ ret' = CheckRet(counterexample, exc, verdict)
           /\ report' = CheckReport(counterexample, exc, verdict, rep)
           /\ solve_pc' = IF CheckRaised(counterexample, exc, verdict) = "none"
                          THEN "returned" ELSE "raised"
           /\ repro_file' = SolveFile(repro_file, make_repro_case, added, exc)
    /\ solver_outcome' = outcome
    /\ solve_op' = "check_assertion_fn"
    /\ UNCHANGED <<assumptions, make_repro_case, counterexample>>
    /\ UNCHANGED <<proveVars, registryVars, matchVars, rewriteVars, exprVars>>

SolveNext ==
    \E outcome \in Outcomes :
        \E solverCore \in Cores(SolveStmtIndex(FALSE, SolveAsserted(assumptions))) :
            \/ Solve(outcome, solverCore)
            \/ CheckAssertionFn(outcome, solverCore)

SpecSolve == SolveInit /\ [][SolveNext]_vars

(***************************************************************************)
(* prove_assertion_fn: the binding environment.                            *)
(* A definition node is [kind, of, n]: the FunctionDef of registry         *)
(* function of ("fn"), the parameter of of's assertions ("arg"; of = 0:    *)
(* the conclusion's), the parameter of of's definition ("def_arg"), or the *)
(* n-th ast.arg made for a lambda ("lambda_arg").                          *)
(***************************************************************************)
Defs == 1..NumDefs

FnKey(d) == [kind |-> "fn", of |-> d, n |-> 0]

ArgKey(d) == [kind |-> "arg", of |-> d, n |-> 0]

DefArgKey(d) == [kind |-> "def_arg", of |-> d, n |-> 0]

LambdaArgKey(d, n) == [kind |-> "lambda_arg", of |-> d, n |-> n]

\* definition.name of a FunctionDef, definition.arg of an ast.arg
NameOf(key) ==
    IF key.kind = "fn" THEN <<"f", key.of>>
    ELSE IF key.kind = "lambda_arg" THEN <<"y", 0>>
    ELSE <<"x", 0>>

\* z3.Const(name, Unk)
Const(name) == [const |-> name]

\* Z3Transformer.register: the refs after registering key
Register(r, key) ==
    IF key \in DOMAIN r THEN r ELSE r @@ (key :> Const(NameOf(key)))

RegisterAll(r, keys) ==
    [k \in DOMAIN r \cup keys |-> Register(r, k)[k]]

\* function_body_to_z3: self.env.refs[definition] = arg_name_to_var[name],
\* for the ast.arg it has just made
BindLambdaArg(r, d) ==
    LET made == {k \in DOMAIN r : k.kind = "lambda_arg"}
        key == LambdaArgKey(d, Cardinality(made) + 1)
    IN  [k \in DOMAIN r \cup {key} |->
            IF k = key THEN Const(NameOf(key)) ELSE r[k]]

\* a variant of the constructor that never takes over the refs it is given
NewEnvRefs_Fresh(r) == <<>>

\* Z3BindingEnv(refs).refs: refs if refs else {}
NewEnvRefs(r) == IF DOMAIN r /= {} THEN r ELSE <<>>

\* where a lambda is: in the conclusion (0), in the module-level assertion
\* (-1), or in an assertion of registry function a.of
Site(a) == IF a.of = 0 /\ a.n > 0 THEN -1 ELSE a.of

\* visit_Lambda: name = 'lambda_{}_{}'.format(node.lineno, node.col_offset)
LambdaName(at) == <<"lambda", at.lineno, at.col_offset>>

\* visit_Lambda: funcval = Z.Wrapfunc(z3.Const(name, PyFunc))
LambdaHandle(at) == [wrapfunc |-> Const(LambdaName(at))]

\* visit_Lambda: the two support formulas of the lambda in assertion a
LambdaSupport(a) ==
    <<[kind |-> "lambda_eq", of |-> a.of, n |-> a.n],
      [kind |-> "lambda_is_func", of |-> a.of, n |-> a.n]>>

\* an assertion function is [of, n, used, lambda, args]: the n-th of of, the
\* definitions it refers to, whether it holds a lambda, its parameter nodes
\* assertion_fn_to_z3: the env after compiling assertion a
CompileRefs(r, a) ==
    LET r1 == RegisterAll(r, {FnKey(u) : u \in a.used} \cup a.args)
    IN  IF a.lambda THEN BindLambdaArg(r1, a.of) ELSE r1

CompileSupport(sup, a) ==
    IF a.lambda THEN sup \o LambdaSupport(a) ELSE sup

(***************************************************************************)
(* prove_assertion_fn: the registry read by the loop.                      *)
(***************************************************************************)
RECURSIVE SetToSeq(_)
SetToSeq(S) ==
    IF S = {} THEN <<>>
    ELSE LET m == CHOOSE x \in S : \A y \in S : x <= y
         IN  <<m>> \o SetToSeq(S \ {m})

\* fninfo.get_assertions(): one assertion per definition referred to, and one
\* more for the lambda
AssertionsOf(d) ==
    LET used == SetToSeq(uses[d])
    IN  [i \in 1..Len(used) |->
            [of |-> d, n |-> i, used |-> {used[i]}, lambda |-> FALSE,
             args |-> {ArgKey(d)}]]
        \o (IF d \in lambdas
            THEN <<[of |-> d, n |-> Len(used) + 1, used |-> {}, lambda |-> TRUE,
                    args |-> {ArgKey(d)}]>>
            ELSE <<>>)

\* fninfo.definitional_assertion is not None
HasDefinitionalAssertion(d) == d % 2 = 0

\* fn_annotation_assertion: returns(fn(args)) over the definition's own args
DefinitionalAssertion(d) ==
    [of |-> d, n |-> 0, used |-> {d}, lambda |-> FALSE, args |-> {DefArgKey(d)}]

\* a module-level assertion: the n-th, n >= 1
GlobalAssertion(n, used, lambda) ==
    [of |-> 0, n |-> n, used |-> used, lambda |-> lambda,
     args |-> {[kind |-> "arg", of |-> 0, n |-> n]}]

\* the conclusion function
Conclusion ==
    [of |-> 0, n |-> 0, used |-> concl_uses, lambda |-> 0 \in lambdas,
     args |-> {ArgKey(0)}]

(***************************************************************************)
(* prove_assertion_fn: one round of the loop.                              *)
(* The state of a round is [refs, support, baseline, handled, addedone].   *)
(***************************************************************************)
\* make_statement(assertion, env, scopes)
AssertionStatement(a) == [kind |-> "assertion", of |-> a.of, n |-> a.n]

\* make_statement(expr)
ExprStatement(kind, d, n) == [kind |-> kind, of |-> d, n |-> n]

RECURSIVE AddAssertions(_, _, _)
AddAssertions(st, as, i) ==
    IF i > Len(as) THEN st
    ELSE AddAssertions(
            [st EXCEPT !.refs = CompileRefs(st.refs, as[i]),
                       !.support = CompileSupport(st.support, as[i]),
                       !.baseline = Append(st.baseline, AssertionStatement(as[i]))],
            as, i + 1)

\* a variant of the body that does not mark the definition handled
HandleDef_NotMarked(st, d) ==
    LET s1 == AddAssertions([st EXCEPT !.addedone = TRUE], AssertionsOf(d), 1)
        s2 == [s1 EXCEPT !.baseline =
                  Append(s1.baseline, ExprStatement("is_func", d, 0))]
    IN  IF HasDefinitionalAssertion(d)
        THEN AddAssertions(s2, <<DefinitionalAssertion(d)>>, 1)
        ELSE s2

\* the body of `if fn_def in borderset:`
HandleDef(st, d) ==
    LET s1 == AddAssertions([st EXCEPT !.addedone = TRUE,
                                       !.handled = st.handled \cup {FnKey(d)}],
                            AssertionsOf(d), 1)
        s2 == [s1 EXCEPT !.baseline =
                  Append(s1.baseline, ExprStatement("is_func", d, 0))]
    IN  IF HasDefinitionalAssertion(d)
        THEN AddAssertions(s2, <<DefinitionalAssertion(d)>>, 1)
        ELSE s2

\* for name, fninfo in _pure_defs.functions.items(): from definition d on
RECURSIVE RoundFrom(_, _, _)
RoundFrom(st, borderset, d) ==
    IF d > NumDefs THEN st
    ELSE RoundFrom(IF FnKey(d) \in borderset THEN HandleDef(st, d) ELSE st,
                   borderset, d + 1)

\* baseline.extend(map(make_statement, env.support[:]))
SupportStatements(sup) ==
    [i \in 1..Len(sup) |-> ExprStatement(sup[i].kind, sup[i].of, sup[i].n)]

\* a variant of the loop's exit test that never breaks
LoopBreaks_Never(added) == FALSE

\* if not addedone: break
LoopBreaks(added) == ~added

\* core_assertions(env): the four Concat/cons axioms
CoreAssertions == [i \in 1..4 |-> ExprStatement("core", 0, i)]

(***************************************************************************)
(* The inputs of prove_assertion_fn: a chain 1 -> 2 -> ... -> len of       *)
(* references, closed or not by a reference of the last to the first or to *)
(* itself, with or without two more definitions referred to by the first.  *)
(***************************************************************************)
Graph(len, back, wide) ==
    [d \in Defs |->
        (IF d < len THEN {d + 1} ELSE {})
        \cup (IF d = len /\ back = "first" THEN {1} ELSE {})
        \cup (IF d = len /\ back = "self" THEN {d} ELSE {})
        \cup (IF d = 1 /\ len >= 1 /\ wide THEN {len + 1, len + 2} \cap Defs
              ELSE {})]

\* the positions a Lambda node may have in its source
Positions == {[lineno |-> l, col_offset |-> c] : l \in 1..MaxLine, c \in {4, 11}}

\* the sites that hold a lambda
LambdaSites(ls, gs) ==
    ls \cup {Site(gs[i]) : i \in {j \in 1..Len(gs) : gs[j].lambda}}

\* the module is parsed as one file (parse_pure), so its Lambda nodes are at
\* different positions; the conclusion is parsed on its own, from the source
\* of its function alone (check_assertion_fn), so its lines count from 1
LambdaPlacements(ls, gs) ==
    {f \in [LambdaSites(ls, gs) -> Positions] :
        \A s, t \in LambdaSites(ls, gs) \ {0} : s /= t => f[s] /= f[t]}

ProveInit ==
    /\ \E len \in 0..NumDefs, back \in {"none", "first", "self"}, wide \in BOOLEAN :
           /\ uses = Graph(len, back, wide)
           /\ concl_uses \in {IF len >= 1 THEN {1} ELSE {}, {}}
           /\ lambdas \in {{}, {0}, {len}}
    /\ globals \in {<<>>, <<GlobalAssertion(1, {NumDefs}, FALSE)>>,
                     <<GlobalAssertion(1, {}, TRUE)>>}
    /\ lambda_at \in LambdaPlacements(lambdas, globals)
    /\ refs = <<>>
    /\ support = <<>>
    /\ baseline = <<>>
    /\ handled = {}
    /\ iter = 0
    /\ addedone = FALSE
    /\ rounds = <<>>
    /\ prove_pc = "compile"
    /\ SolveIdle
    /\ RegistryIdle
    /\ MatchIdle
    /\ RewriteIdle
    /\ ExprIdle

\* lines 1014-1028: the conclusion and the seed of the baseline
ProveStart ==
    /\ prove_pc = "compile"
    /\ LET st == AddAssertions(
                     [refs |-> CompileRefs(<<>>, Conclusion),
                      support |-> CompileSupport(<<>>, Conclusion),
                      baseline |-> CoreAssertions,
                      handled |-> {},
                      addedone |-> FALSE],
                     globals, 1)
       IN  /\ refs' = st.refs
           /\ support' = st.support
           /\ baseline' = st.baseline
    /\ prove_pc' = "expand"
    /\ UNCHANGED <<uses, concl_uses, globals, lambdas, lambda_at, handled, iter,
                   addedone, rounds>>
    /\ UNCHANGED <<solveVars, registryVars, matchVars, rewriteVars, exprVars>>

\* one iteration of `for iter in range(_MAX_DEPTH)`
ExpansionRound ==
    /\ prove_pc = "expand"
    /\ iter < MaxDepth
    /\ LET env_refs == NewEnvRefs(refs)
           borderset == DOMAIN env_refs \ handled
           st == RoundFrom([refs |-> env_refs,
                            support |-> <<>>,
                            baseline |-> baseline \o SupportStatements(support),
                            handled |-> handled,
                            addedone |-> FALSE],
                           borderset, 1)
       IN  /\ refs' = st.refs
           /\ support' = st.support
           /\ baseline' = st.baseline
           /\ handled' = st.handled
           /\ addedone' = st.addedone
           /\ rounds' = Append(rounds, st.handled \ handled)
           /\ prove_pc' = IF LoopBreaks(st.addedone) THEN "score" ELSE "expand"
    /\ iter' = iter + 1
    /\ UNCHANGED <<uses, concl_uses, globals, lambdas, lambda_at>>
    /\ UNCHANGED <<solveVars, registryVars, matchVars, rewriteVars, exprVars>>

\* lines 1055-1061: after the break or the last round, the statements go to
\* the oracle and to solve
ProveFinish ==
    /\ \/ prove_pc = "score"
       \/ prove_pc = "expand" /\ iter = MaxDepth
    /\ baseline' = SelectSeq(baseline, LAMBDA b : b.kind /= "None")
    /\ prove_pc' = "done"
    /\ UNCHANGED <<uses, concl_uses, globals, lambdas, lambda_at, refs, support,
                   handled, iter, addedone, rounds>>
    /\ UNCHANGED <<solveVars, registryVars, matchVars, rewriteVars, exprVars>>

ProveNext == ProveStart \/ ExpansionRound \/ ProveFinish

SpecProve == ProveInit /\ [][ProveNext]_vars

(***************************************************************************)
(* ModuleInfo and FnInfo.                                                  *)
(* A FunctionDef node is a number 1..NumNodes, 0 stands for None.  An      *)
(* FnInfo is [definition, definitional_assertion, assertions]; its         *)
(* definitional assertion is named by the definition it was made from.     *)
(***************************************************************************)
Nodes == 1..NumNodes

FnNames == {"", "f", "g"}

\* FnInfo.__init__
NewFnInfo == [definition |-> 0, definitional_assertion |-> 0, assertions |-> <<>>]

\* fn_annotation_assertion(fn) is not None: fn has parameter preconditions
\* or a return annotation
Annotated(node) == node % 2 = 1

\* a variant of the guard that lets a second definition through
SetDefinitionRaises_Never(info) == FALSE

\* FnInfo.set_definition: `if self.definition is not None: raise`
SetDefinitionRaises(info) == info.definition /= 0

\* FnInfo.set_definition, when it does not raise
SetDefinition(info, node) ==
    [info EXCEPT !.definition = node,
                 !.definitional_assertion = IF Annotated(node) THEN node ELSE @]

\* FnInfo.add_assertion
AddAssertion(info, node) ==
    [info EXCEPT !.assertions = Append(@, node)]

\* ModuleInfo.__init__: the FnInfo '' of the global assertions
NewModuleFunctions == [n \in {""} |-> NewFnInfo]

\* ModuleInfo.fn(name): the functions after the lookup
WithFn(fns, name) ==
    IF name \in DOMAIN fns THEN fns ELSE fns @@ (name :> NewFnInfo)

RegistryInit ==
    /\ functions = NewModuleFunctions
    /\ fndef_to_moduleinfo = {}
    /\ set_calls = [n \in FnNames |-> <<>>]
    /\ last_call = [op |-> "-", name |-> "", arg |-> 0, raised |-> "none"]
    /\ ncalls = 0
    /\ SolveIdle
    /\ ProveIdle
    /\ MatchIdle
    /\ RewriteIdle
    /\ ExprIdle

\* ModuleInfo.fn(name).set_definition(node)
FnSetDefinition(name, node) ==
    /\ ncalls < MaxCalls
    /\ LET fns == WithFn(functions, name)
           fails == SetDefinitionRaises(fns[name])
       IN  /\ functions' = IF fails THEN fns
                           ELSE [fns EXCEPT ![name] = SetDefinition(@, node)]
           /\ fndef_to_moduleinfo' = IF fails THEN fndef_to_moduleinfo
                                     ELSE fndef_to_moduleinfo \cup {node}
           /\ last_call' = [op |-> "set_definition", name |-> name, arg |-> node,
                            raised |-> IF fails THEN "multiply defined function"
                                       ELSE "none"]
    /\ set_calls' = [set_calls EXCEPT ![name] = Append(@, node)]
    /\ ncalls' = ncalls + 1
    /\ UNCHANGED <<solveVars, proveVars, matchVars, rewriteVars, exprVars>>

\* ModuleInfo.get_fn(name).add_assertion(node)
GetFnAddAssertion(name, node) ==
    /\ ncalls < MaxCalls
    /\ LET fails == name \notin DOMAIN functions
       IN  /\ functions' = IF fails THEN functions
                           ELSE [functions EXCEPT ![name] = AddAssertion(@, node)]
           /\ fndef_to_moduleinfo' = IF fails THEN fndef_to_moduleinfo
                                     ELSE fndef_to_moduleinfo \cup {node}
           /\ last_call' = [op |-> "add_assertion", name |-> name, arg |-> node,
                            raised |-> IF fails THEN "KeyError" ELSE "none"]
    /\ ncalls' = ncalls + 1
    /\ UNCHANGED set_calls
    /\ UNCHANGED <<solveVars, proveVars, matchVars, rewriteVars, exprVars>>

RegistryNext ==
    \E name \in FnNames, node \in Nodes :
        \/ FnSetDefinition(name, node)
        \/ GetFnAddAssertion(name, node)

SpecRegistry == RegistryInit /\ [][RegistryNext]_vars

(***************************************************************************)
(* The pattern engine: syntax trees.                                       *)
(* A node is [kind, id, kids].  kind is the ast class; id is the           *)
(* identifier of a Name as its sequence of characters, the numeral of a    *)
(* Num, the operator class of a BinOp or BoolOp; kids are the child nodes: *)
(* left and right of a BinOp, the values of a BoolOp, func followed by the *)
(* args of a Call.                                                         *)
(***************************************************************************)
Name(id) == [kind |-> "Name", id |-> id, kids |-> <<>>]

Num(n) == [kind |-> "Num", id |-> <<n>>, kids |-> <<>>]

BinOp(op, left, right) == [kind |-> "BinOp", id |-> <<op>>, kids |-> <<left, right>>]

BoolOp(op, values) == [kind |-> "BoolOp", id |-> <<op>>, kids |-> values]

Call(func, args) == [kind |-> "Call", id |-> <<>>, kids |-> <<func>> \o args]

UnaryOp(op, operand) == [kind |-> "UnaryOp", id |-> <<op>>, kids |-> <<operand>>]

LowerChars == {"a", "b", "f", "g"}

UpperChars == {"X", "Y", "Z"}

\* a variant that asks for an uppercase character only
IsUpper_AnyUpper(id) ==
    \E i \in 1..Len(id) : id[i] \in UpperChars

\* str.isupper(): some cased character, and no lowercase one
IsUpper(id) ==
    /\ \E i \in 1..Len(id) : id[i] \in UpperChars
    /\ \A i \in 1..Len(id) : id[i] \notin LowerChars

\* PatternVarPreprocessor.visit_Name on every Name of the tree
RECURSIVE Preprocess(_)
Preprocess(t) ==
    IF t.kind = "Name"
    THEN IF IsUpper(t.id) THEN Name(<<"$">> \o t.id) ELSE t
    ELSE [t EXCEPT !.kids = [i \in 1..Len(t.kids) |-> Preprocess(t.kids[i])]]

\* patt.id[0] == '$' for a Name
IsPatternVar(p) == p.kind = "Name" /\ Len(p.id) > 0 /\ p.id[1] = "$"

\* bind[key] = node
Bind(b, key, node) ==
    [k \in DOMAIN b \cup {key} |-> IF k = key THEN node ELSE b[k]]

\* a variant with an entry for one more kind
Matchable_WithUnaryOp ==
    {"Call", "Name", "Module", "Expr", "BinOp", "BoolOp", "Num", "list", "arg",
     "UnaryOp"}

\* the node kinds _MATCHER has an entry for
Matchable == {"Call", "Name", "Module", "Expr", "BinOp", "BoolOp", "Num", "list", "arg"}

(***************************************************************************)
(* matches(node, patt, bind): [res, bind], the value returned ("True",     *)
(* "False", or "Unhandled" for the exception) and the bindings left.       *)
(***************************************************************************)
RECURSIVE Matches(_, _, _)
RECURSIVE MatchesAll(_, _, _, _)

\* all(matches(ni, pi, b) for (ni, pi) in zip(ns, ps)), from position i on
MatchesAll(ns, ps, i, b) ==
    IF i > Min(Len(ns), Len(ps)) THEN [res |-> "True", bind |-> b]
    ELSE LET m == Matches(ns[i], ps[i], b)
         IN  IF m.res = "True" THEN MatchesAll(ns, ps, i + 1, m.bind) ELSE m

Matches(n, p, b) ==
    IF IsPatternVar(p) THEN [res |-> "True", bind |-> Bind(b, Tail(p.id), n)]
    ELSE IF p.kind /= n.kind THEN [res |-> "False", bind |-> <<>>]
    ELSE IF p.kind \notin Matchable THEN [res |-> "Unhandled", bind |-> b]
    ELSE IF p.kind = "Call"
         THEN LET f == Matches(n.kids[1], p.kids[1], b)
              IN  IF f.res /= "True" THEN f
                  ELSE IF Len(n.kids) /= Len(p.kids)
                       THEN [res |-> "False", bind |-> f.bind]
                  ELSE MatchesAll(n.kids, p.kids, 2, f.bind)
    ELSE IF p.kind \in {"BinOp", "BoolOp"}
         THEN IF n.id /= p.id THEN [res |-> "False", bind |-> b]
              ELSE MatchesAll(n.kids, p.kids, 1, b)
    ELSE [res |-> IF n.id = p.id THEN "True" ELSE "False", bind |-> b]

(***************************************************************************)
(* replace_pattern_vars(node, bindings): the copy of the template with     *)
(* each pattern variable replaced by the subtree bound to it; a KeyError   *)
(* node where the variable has no binding (the call raises).               *)
(***************************************************************************)
KeyError == [kind |-> "KeyError", id |-> <<>>, kids |-> <<>>]

RECURSIVE ReplacePatternVars(_, _)
ReplacePatternVars(t, b) ==
    IF t.kind = "Name"
    THEN IF IsPatternVar(t)
         THEN IF Tail(t.id) \in DOMAIN b THEN b[Tail(t.id)] ELSE KeyError
         ELSE t
    ELSE [t EXCEPT !.kids =
             [i \in 1..Len(t.kids) |-> ReplacePatternVars(t.kids[i], b)]]

RECURSIVE Raises(_)
Raises(t) ==
    t.kind = "KeyError" \/ \E i \in 1..Len(t.kids) : Raises(t.kids[i])

(***************************************************************************)
(* The trees and patterns matched.                                         *)
(***************************************************************************)
Leaves == {Name(<<"a">>), Name(<<"b">>), Num("0"), Num("1")}

Flat ==
    {BinOp(op, l, r) : op \in {"Add", "Sub"}, l \in Leaves, r \in Leaves}
    \cup {BoolOp("And", <<l, r>>) : l \in Leaves, r \in Leaves}
    \cup {BoolOp("And", <<l, r, Name(<<"a">>)>>) : l \in Leaves, r \in Leaves}
    \cup {Call(Name(<<f>>), <<l>>) : f \in {"f", "g"}, l \in Leaves}
    \cup {Call(Name(<<"f">>), <<l, r>>) : l \in Leaves, r \in Leaves}
    \cup {UnaryOp("Not", l) : l \in Leaves}

Trees ==
    Leaves \cup Flat
    \cup {BinOp("Add", Num("0"), t) : t \in Flat}
    \cup {Call(Name(<<"f">>), <<t>>) : t \in Flat}

V(c) == Name(<<c>>)

\* the patterns as written, before preprocess_pattern_vars
SourcePatterns ==
    {V("X"), V("a"), Num("0"),
     BinOp("Add", Num("0"), V("X")), BinOp("Add", V("X"), V("Y")),
     BinOp("Add", V("X"), V("X")), BinOp("Add", V("X"), Num("1")),
     BoolOp("And", <<V("X"), V("Y")>>), BoolOp("And", <<V("X"), V("a")>>),
     BoolOp("And", <<V("X"), V("Y"), V("Z")>>),
     Call(V("f"), <<V("X")>>), Call(V("f"), <<V("X"), V("Y")>>),
     Call(V("f"), <<Call(V("f"), <<V("X")>>)>>),
     Call(V("X"), <<V("Y")>>),
     UnaryOp("Not", V("X")), Call(V("f"), <<UnaryOp("Not", V("a"))>>)}

MatchInit ==
    /\ m_node \in Trees
    /\ m_patt \in {Preprocess(p) : p \in SourcePatterns}
    /\ m_res = "-"
    /\ m_bind = <<>>
    /\ m_out = NoTree
    /\ m_pc = "start"
    /\ SolveIdle
    /\ ProveIdle
    /\ RegistryIdle
    /\ RewriteIdle
    /\ ExprIdle

\* matches(node, patt, bindings) with bindings = {}
Match ==
    /\ m_pc = "start"
    /\ LET m == Matches(m_node, m_patt, <<>>)
       IN  /\ m_res' = m.res
           /\ m_bind' = m.bind
    /\ m_pc' = "matched"
    /\ UNCHANGED <<m_node, m_patt, m_out>>
    /\ UNCHANGED <<solveVars, proveVars, registryVars, rewriteVars, exprVars>>

\* replace_pattern_vars(patt, bindings) after a successful match
Substitute ==
    /\ m_pc = "matched"
    /\ m_res = "True"
    /\ m_out' = ReplacePatternVars(m_patt, m_bind)
    /\ m_pc' = "replaced"
    /\ UNCHANGED <<m_node, m_patt, m_res, m_bind>>
    /\ UNCHANGED <<solveVars, proveVars, registryVars, rewriteVars, exprVars>>

MatchNext == Match \/ Substitute

SpecMatch == MatchInit /\ [][MatchNext]_vars

(***************************************************************************)
(* The rewrite engine.                                                     *)
(***************************************************************************)
\* patthash(node): the node type with _AST_SUB_HASH's discriminant: the
\* operator type of a BinOp or BoolOp; 0 for every other node, a Call
\* included, since n.func is a node and never a str
PattHash(node) ==
    <<node.kind, IF node.kind \in {"BinOp", "BoolOp"} THEN node.id[1] ELSE "0">>

Hashes ==
    {"Name", "Num", "BinOp", "BoolOp", "Call", "UnaryOp"} \X {"0", "Add", "Sub", "And"}

Engines == {"base", "w1", "w2"}

\* WrappedRewriteEngine.inner
Inner(e) == "base"

\* collections.defaultdict(list)
EmptyIndex == [h \in Hashes |-> <<>>]

\* lookup(hsh): the rules returned
RECURSIVE Lookup(_, _, _)
Lookup(idx, e, h) ==
    IF e = "base" THEN idx[e][h]
    ELSE LET r1 == idx[e][h]
             r2 == Lookup(idx, Inner(e), h)
         IN  IF r1 = <<>> THEN r2
             ELSE IF r2 = <<>> THEN r1
             ELSE r1 \o r2

\* lookup(hsh): the engine whose list object is returned; "temporary" for
\* the fresh list r1 + r2
RECURSIVE LookupOwner(_, _, _)
LookupOwner(idx, e, h) ==
    IF e = "base" THEN e
    ELSE IF idx[e][h] = <<>> THEN LookupOwner(idx, Inner(e), h)
    ELSE IF Lookup(idx, Inner(e), h) = <<>> THEN e
    ELSE "temporary"

\* the conditions rules are added with
Always == "always"

XIsNum == "x_is_num"

\* cond(bind): "True", "False", or "Raise" for the KeyError of bind['X']
Cond(c, b) ==
    IF c = Always THEN "True"
    ELSE IF <<"X">> \notin DOMAIN b THEN "Raise"
    ELSE IF b[<<"X">>].kind = "Num" THEN "True" ELSE "False"

\* the rules as given to add: [patt, repl, cond]
Rule(patt, repl, cond) == [patt |-> patt, repl |-> repl, cond |-> cond]

RulePool ==
    {Rule(BinOp("Add", Num("0"), V("X")), V("X"), Always),
     Rule(Call(V("f"), <<Call(V("f"), <<V("X")>>)>>), Call(V("f"), <<V("X")>>), Always),
     Rule(BoolOp("And", <<V("X"), V("a")>>), V("X"), Always),
     Rule(BinOp("Add", V("X"), V("Y")), BinOp("Add", V("Y"), V("X")), Always),
     Rule(V("X"), Num("0"), Always),
     Rule(Call(V("g"), <<V("X")>>), V("X"), XIsNum),
     Rule(BinOp("Add", V("X"), Num("1")), V("X"), Always),
     Rule(BinOp("Add", V("Y"), Num("0")), V("Y"), Always)}

\* the rule add stores: preprocess_pattern_vars(patt, repl)
Stored(rule) ==
    Rule(Preprocess(rule.patt), Preprocess(rule.repl), rule.cond)

\* add(patt, repl, cond): self.lookup(patthash(patt)).append(...)
AddRule(idx, e, rule) ==
    LET r == Stored(rule)
        h == PattHash(r.patt)
        owner == LookupOwner(idx, e, h)
    IN  IF owner = "temporary" THEN idx
        ELSE [idx EXCEPT ![owner][h] = Append(@, r)]

\* the rule applications one call of rewrite may make in the model; a run
\* that needs more is cut off with status "cut"
MaxSteps == 5

\* the for loop of rewrite_top over the candidates from position i on, with
\* the one bind dict of the enclosing while iteration
RECURSIVE TryCandidates(_, _, _, _)
TryCandidates(cands, i, node, bind) ==
    IF i > Len(cands)
    THEN [matched |-> FALSE, node |-> node, status |-> "ok", bind |-> bind, rule |-> 0]
    ELSE LET m == Matches(node, cands[i].patt, bind)
             c == Cond(cands[i].cond, m.bind)
             newnode == ReplacePatternVars(cands[i].repl, m.bind)
         IN  IF m.res = "Unhandled"
             THEN [matched |-> FALSE, node |-> node, status |-> "raised",
                   bind |-> m.bind, rule |-> i]
             ELSE IF m.res = "False"
             THEN TryCandidates(cands, i + 1, node, m.bind)
             ELSE IF c = "Raise"
             THEN [matched |-> FALSE, node |-> node, status |-> "raised",
                   bind |-> m.bind, rule |-> i]
             ELSE IF c = "False"
             THEN TryCandidates(cands, i + 1, node, m.bind)
             ELSE IF Raises(newnode)
             THEN [matched |-> FALSE, node |-> node, status |-> "raised",
                   bind |-> m.bind, rule |-> i]
             ELSE [matched |-> TRUE, node |-> newnode, status |-> "ok",
                   bind |-> m.bind, rule |-> i]

\* rewrite_top(node): [node, fuel, status, changed]; changed is
\* "the node returned is not the node given"
RECURSIVE RewriteTop(_, _, _, _, _)
RewriteTop(idx, e, node, fuel, changed) ==
    LET r == TryCandidates(Lookup(idx, e, PattHash(node)), 1, node, <<>>)
    IN  IF r.status /= "ok"
        THEN [node |-> node, fuel |-> fuel, status |-> r.status, changed |-> changed]
        ELSE IF ~r.matched
        THEN [node |-> node, fuel |-> fuel, status |-> "ok", changed |-> changed]
        ELSE IF fuel = 0
        THEN [node |-> node, fuel |-> fuel, status |-> "cut", changed |-> changed]
        ELSE RewriteTop(idx, e, r.node, fuel - 1, TRUE)

\* generic_visit(node): [node, fuel, status].  NodeTransformer.generic_visit
\* visits the children in order and stores what the visits return; the
\* operator and context fields are visited too and have no candidates.
RECURSIVE GenericVisit(_, _, _, _)
RECURSIVE VisitKids(_, _, _, _, _, _)

VisitKids(idx, e, kids, i, done, fuel) ==
    IF i > Len(kids) THEN [kids |-> done, fuel |-> fuel, status |-> "ok"]
    ELSE LET k == GenericVisit(idx, e, kids[i], fuel)
         IN  IF k.status /= "ok"
             THEN [kids |-> done, fuel |-> k.fuel, status |-> k.status]
             ELSE VisitKids(idx, e, kids, i + 1, Append(done, k.node), k.fuel)

GenericVisit(idx, e, node, fuel) ==
    LET k == VisitKids(idx, e, node.kids, 1, <<>>, fuel)
        visited == [node EXCEPT !.kids = k.kids]
        t == RewriteTop(idx, e, visited, k.fuel, FALSE)
    IN  IF k.status /= "ok"
        THEN [node |-> node, fuel |-> k.fuel, status |-> k.status]
        ELSE IF t.status /= "ok"
        THEN [node |-> visited, fuel |-> t.fuel, status |-> t.status]
        ELSE IF ~t.changed
        THEN [node |-> visited, fuel |-> t.fuel, status |-> "ok"]
        ELSE GenericVisit(idx, e, t.node, t.fuel)

\* rewrite(node): [node, status]
RewriteOf(idx, e, node) ==
    LET r == GenericVisit(idx, e, node, MaxSteps)
    IN  [node |-> r.node, status |-> r.status]

\* the rules one engine may be given in the model
MaxRules == 2

A == Name(<<"a">>)

B == Name(<<"b">>)

F(x) == Call(Name(<<"f">>), <<x>>)

G(x) == Call(Name(<<"g">>), <<x>>)

\* the trees given to rewrite
RewriteTrees ==
    {A, Num("0"), Num("1"),
     BinOp("Add", Num("0"), A), BinOp("Add", Num("0"), BinOp("Add", Num("0"), B)),
     BinOp("Add", Num("1"), Num("1")), BinOp("Sub", A, BinOp("Add", Num("0"), B)),
     BinOp("Add", A, Num("0")),
     F(F(A)), F(F(F(Num("1")))), F(BinOp("Add", Num("0"), F(F(B)))),
     G(Num("0")), G(A), G(G(Num("1"))),
     BoolOp("And", <<B, A>>), BoolOp("And", <<Num("1"), A, B>>),
     BoolOp("And", <<BoolOp("And", <<B, A>>), A>>)}

RewriteInit ==
    /\ rule_index = [e \in Engines |-> EmptyIndex]
    /\ adds = <<>>
    /\ rw_engine = "-"
    /\ rw_in = NoTree
    /\ rw_out = [node |-> NoTree, status |-> "-"]
    /\ rw_again = [node |-> NoTree, status |-> "-"]
    /\ rw_top = NoPass
    /\ rw_pc = "build"
    /\ SolveIdle
    /\ ProveIdle
    /\ RegistryIdle
    /\ MatchIdle
    /\ ExprIdle

\* engine.add(patt, repl, cond)
Add(e, rule) ==
    /\ rw_pc = "build"
    /\ Len(adds) < MaxRules
    /\ rule_index' = AddRule(rule_index, e, rule)
    /\ adds' = Append(adds, [engine |-> e, rule |-> rule])
    /\ UNCHANGED <<rw_engine, rw_in, rw_out, rw_again, rw_top, rw_pc>>
    /\ UNCHANGED <<solveVars, proveVars, registryVars, matchVars, exprVars>>

\* out = engine.rewrite(tree); engine.rewrite(out)
Rewrite(e, tree) ==
    /\ rw_pc = "build"
    /\ rw_engine' = e
    /\ rw_in' = tree
    /\ LET out == RewriteOf(rule_index, e, tree)
       IN  /\ rw_out' = out
           /\ rw_again' = IF out.status = "ok"
                          THEN RewriteOf(rule_index, e, out.node)
                          ELSE [node |-> NoTree, status |-> "-"]
    /\ rw_pc' = "done"
    /\ UNCHANGED <<rule_index, adds, rw_top>>
    /\ UNCHANGED <<solveVars, proveVars, registryVars, matchVars, exprVars>>

\* engine.rewrite_top(tree); rw_top records the first pass of the for loop
\* over the candidates, with its bind dict as the loop left it
CallRewriteTop(e, tree) ==
    /\ rw_pc = "build"
    /\ rw_engine' = e
    /\ rw_in' = tree
    /\ LET cands == Lookup(rule_index, e, PattHash(tree))
           pass == TryCandidates(cands, 1, tree, <<>>)
           out == RewriteTop(rule_index, e, tree, MaxSteps, FALSE)
       IN  /\ rw_top' = [cands |-> cands, matched |-> pass.matched,
                         bind |-> pass.bind, rule |-> pass.rule]
           /\ rw_out' = [node |-> out.node, status |-> out.status]
    /\ rw_pc' = "top"
    /\ UNCHANGED <<rule_index, adds, rw_again>>
    /\ UNCHANGED <<solveVars, proveVars, registryVars, matchVars, exprVars>>

RewriteNext ==
    \/ \E e \in Engines, rule \in RulePool : Add(e, rule)
    \/ \E e \in Engines, tree \in RewriteTrees : Rewrite(e, tree)
    \/ \E e \in Engines, tree \in RewriteTrees : CallRewriteTop(e, tree)

SpecRewrite == RewriteInit /\ [][RewriteNext]_vars

(***************************************************************************)
(* The expression compiler: terms.                                         *)
(* A term is [op, val, args]: the empty tuple Unk._, the cons Unk.a, the   *)
(* concatenation Z.Concat, the application App (printed "."), a wrapped    *)
(* integer, a named constant, and the ast.Starred marker that visit_Starred*)
(* leaves around a compiled value for z3apply.                             *)
(***************************************************************************)
Empty == [op |-> "_", val |-> <<>>, args |-> <<>>]

Cons(accumulator, arg) == [op |-> "a", val |-> <<>>, args |-> <<accumulator, arg>>]

Concat(left, right) == [op |-> "Concat", val |-> <<>>, args |-> <<left, right>>]

App(fnval, args) == [op |-> ".", val |-> <<>>, args |-> <<fnval, args>>]

Wrapint(n) == [op |-> "int", val |-> <<n>>, args |-> <<>>]

FnConst(name) == [op |-> "const", val |-> <<name>>, args |-> <<>>]

Starred(value) == [op |-> "Starred", val |-> <<>>, args |-> <<value>>]

\* _merge_arg(accumulator, arg)
MergeArg_AlwaysConcat(accumulator, arg) ==
    IF arg.op = "Starred"
    THEN Concat(accumulator, arg.args[1])
    ELSE Cons(accumulator, arg)

MergeArg(accumulator, arg) ==
    IF arg.op = "Starred"
    THEN IF accumulator = Empty
         THEN arg.args[1]
         ELSE Concat(accumulator, arg.args[1])
    ELSE Cons(accumulator, arg)

\* functools.reduce(_merge_arg, args, Unk._)
RECURSIVE MergeFrom(_, _, _)
MergeFrom(args, i, accumulator) ==
    IF i > Len(args) THEN accumulator
    ELSE MergeFrom(args, i + 1, MergeArg(accumulator, args[i]))

\* z3apply(fnval, args) for a function value that is no z3 builtin
Z3Apply(fnval, args) == App(fnval, MergeFrom(args, 1, Empty))

\* self.register(fn_for_op(optype)): the constant of the definition _op_<optype>
FnForOp(optype) == FnConst(<<"_op_", optype>>)

(***************************************************************************)
(* Z3Transformer.visit_Compare                                             *)
(***************************************************************************)
\* the operand at position at of the chain, a Num with value n
Operand(at, n) == [at |-> at, n |-> n]

\* visit_Num
VisitNum(node) == Wrapint(node.n)

\* add(expr, clause) of visit_Compare; NoTerm is None
AddClause_Swapped(expr, clause) ==
    IF expr = NoTerm THEN clause ELSE Z3Apply(FnForOp("And"), <<expr, clause>>)

AddClause(expr, clause) ==
    IF expr = NoTerm THEN clause ELSE Z3Apply(FnForOp("And"), <<clause, expr>>)

\* the for loop over reversed(zip(ops[1:], comparators[:-1])), at pair j
RECURSIVE CompareLoop(_, _, _, _, _)
CompareLoop(node, j, expr, lastval, visited) ==
    IF j = 0 THEN [ret |-> expr, lastval |-> lastval, visited |-> visited]
    ELSE LET left == VisitNum(node.comparators[j])
             clause == Z3Apply(FnForOp(node.ops[j + 1]), <<left, lastval>>)
         IN  CompareLoop(node, j - 1, AddClause(expr, clause), left,
                         Append(visited, node.comparators[j].at))

VisitCompare(node) ==
    LET n == Len(node.comparators)
        last == node.comparators[n]
        loop == CompareLoop(node, n - 1, NoTerm, VisitNum(last), <<last.at>>)
        first == Z3Apply(FnForOp(node.ops[1]), <<VisitNum(node.left), loop.lastval>>)
    IN  [ret |-> AddClause(loop.ret, first),
         visited |-> Append(loop.visited, node.left.at)]

\* the comparison operators of a chain in the model
MaxOps == 3

CmpOps == {"Lt", "LtE", "Eq"}

OperandValues == {0, 5}

CompareNodes ==
    UNION {
        {[left |-> Operand(0, v[0]),
          ops |-> o,
          comparators |-> [i \in 1..n |-> Operand(i, v[i])]]
            : o \in [1..n -> CmpOps], v \in [0..n -> OperandValues]}
        : n \in 1..MaxOps}

CompareInit ==
    /\ cmp_node \in CompareNodes
    /\ cmp_ret = NoTerm
    /\ cmp_visited = <<>>
    /\ cmp_pc = "start"
    /\ SolveIdle
    /\ ProveIdle
    /\ RegistryIdle
    /\ MatchIdle
    /\ RewriteIdle
    /\ MergeIdle
    /\ ParseIdle
    /\ PreprocessIdle
    /\ ReplaceIdle
    /\ ResolveIdle
    /\ CoverIdle

\* to_z3 of a Compare node
CompileCompare ==
    /\ cmp_pc = "start"
    /\ LET r == VisitCompare(cmp_node)
       IN  /\ cmp_ret' = r.ret
           /\ cmp_visited' = r.visited
    /\ cmp_pc' = "done"
    /\ UNCHANGED cmp_node
    /\ UNCHANGED <<solveVars, proveVars, registryVars, matchVars, rewriteVars>>
    /\ UNCHANGED <<mergeVars, parseVars, preprocessVars, replaceVars, resolveVars,
                   coverVars>>

CompareNext == CompileCompare

SpecCompare == CompareInit /\ [][CompareNext]_vars

(***************************************************************************)
(* Tuple literals and argument lists: the fold of _merge_arg.              *)
(***************************************************************************)
\* the elements of a tuple literal or an argument list in the model
MaxArgs == 3

\* compiled elements: 4, 0, *(), *(4,), *r, *(4, *r)
MergeElements ==
    {Wrapint(4), Wrapint(0),
     Starred(Empty),
     Starred(Cons(Empty, Wrapint(4))),
     Starred(FnConst("r")),
     Starred(Concat(Cons(Empty, Wrapint(4)), FnConst("r")))}

\* the tuples the free constant r may stand for
TupleValues == {<<>>, <<Wrapint(5)>>, <<Wrapint(5), Wrapint(4)>>}

\* the four Concat/cons equations of core_assertions, instantiated
BaselineEquations(g, r, x) ==
    <<[lhs |-> Concat(r, Empty), rhs |-> r],
      [lhs |-> Concat(Empty, r), rhs |-> r],
      [lhs |-> Concat(g, Cons(Empty, x)), rhs |-> Cons(g, x)],
      [lhs |-> Concat(g, Cons(r, x)), rhs |-> Cons(Concat(g, r), x)]>>

MergeInit ==
    /\ mrg_args \in UNION {[1..n -> MergeElements] : n \in 0..MaxArgs}
    /\ mrg_env \in [{"r"} -> TupleValues]
    /\ mrg_ret = NoTerm
    /\ mrg_pc = "start"
    /\ SolveIdle
    /\ ProveIdle
    /\ RegistryIdle
    /\ MatchIdle
    /\ RewriteIdle
    /\ CompareIdle
    /\ ParseIdle
    /\ PreprocessIdle
    /\ ReplaceIdle
    /\ ResolveIdle
    /\ CoverIdle

\* visit_Tuple: functools.reduce(_merge_arg, params, Unk._)
VisitTuple ==
    /\ mrg_pc = "start"
    /\ mrg_ret' = MergeFrom(mrg_args, 1, Empty)
    /\ mrg_pc' = "tuple"
    /\ UNCHANGED <<mrg_args, mrg_env>>
    /\ UNCHANGED <<solveVars, proveVars, registryVars, matchVars, rewriteVars>>
    /\ UNCHANGED <<compareVars, parseVars, preprocessVars, replaceVars, resolveVars,
                   coverVars>>

\* visit_Call: z3apply(z3fn, params) with the function value f
ApplyArgs ==
    /\ mrg_pc = "start"
    /\ mrg_ret' = Z3Apply(FnConst("f"), mrg_args)
    /\ mrg_pc' = "call"
    /\ UNCHANGED <<mrg_args, mrg_env>>
    /\ UNCHANGED <<solveVars, proveVars, registryVars, matchVars, rewriteVars>>
    /\ UNCHANGED <<compareVars, parseVars, preprocessVars, replaceVars, resolveVars,
                   coverVars>>

MergeNext == VisitTuple \/ ApplyArgs

SpecMerge == MergeInit /\ [][MergeNext]_vars

(***************************************************************************)
(* parse_pure: the scan of a module's top-level items.                     *)
(***************************************************************************)
\* the top-level items of a module in the model
MaxItems == 3

\* an item: a FunctionDef named name, or _assert_<name> when assertion is
\* TRUE; any other statement when function is FALSE
Item(function, assertion, name) ==
    [function |-> function, assertion |-> assertion, name |-> name]

Items ==
    {Item(TRUE, FALSE, "f"), Item(TRUE, FALSE, "g"),
     Item(TRUE, TRUE, "f"), Item(TRUE, TRUE, "g"), Item(TRUE, TRUE, ""),
     Item(FALSE, FALSE, "")}

\* the for loop of parse_pure from item i on; an item is identified by its
\* position.  st is [functions, defs, raised].
RECURSIVE ScanFrom(_, _, _)
ScanFrom(body, i, st) ==
    IF i > Len(body) THEN st
    ELSE IF ~body[i].function THEN ScanFrom(body, i + 1, st)
    ELSE IF body[i].assertion
    THEN IF body[i].name \notin DOMAIN st.functions
         THEN [st EXCEPT !.raised = "KeyError"]
         ELSE ScanFrom(body, i + 1,
                  [st EXCEPT !.functions[body[i].name] = AddAssertion(@, i),
                             !.defs = @ \cup {i}])
    ELSE LET fns == WithFn(st.functions, body[i].name)
         IN  IF SetDefinitionRaises(fns[body[i].name])
             THEN [st EXCEPT !.functions = fns,
                             !.raised = "multiply defined function"]
             ELSE ScanFrom(body, i + 1,
                      [st EXCEPT !.functions =
                                     [fns EXCEPT ![body[i].name] = SetDefinition(@, i)],
                                 !.defs = @ \cup {i}])

ParseInit ==
    /\ parse_body \in UNION {[1..n -> Items] : n \in 0..MaxItems}
    /\ parse_raised = "none"
    /\ parse_pc = "start"
    /\ functions = <<>>
    /\ fndef_to_moduleinfo = {}
    /\ set_calls = <<>>
    /\ last_call = [op |-> "-", name |-> "", arg |-> 0, raised |-> "none"]
    /\ ncalls = 0
    /\ SolveIdle
    /\ ProveIdle
    /\ MatchIdle
    /\ RewriteIdle
    /\ CompareIdle
    /\ MergeIdle
    /\ PreprocessIdle
    /\ ReplaceIdle
    /\ ResolveIdle
    /\ CoverIdle

\* ret = parse_pure(module)
ParsePure ==
    /\ parse_pc = "start"
    /\ LET st == ScanFrom(parse_body, 1,
                     [functions |-> NewModuleFunctions, defs |-> {},
                      raised |-> "none"])
       IN  /\ functions' = st.functions
           /\ fndef_to_moduleinfo' = st.defs
           /\ parse_raised' = st.raised
    /\ parse_pc' = "done"
    /\ UNCHANGED <<parse_body, set_calls, last_call, ncalls>>
    /\ UNCHANGED <<solveVars, proveVars, matchVars, rewriteVars>>
    /\ UNCHANGED <<compareVars, mergeVars, preprocessVars, replaceVars, resolveVars,
                   coverVars>>

ParseNext == ParsePure

SpecParse == ParseInit /\ [][ParseNext]_vars

(***************************************************************************)
(* preprocess_pattern_vars with the processor's mapping.                   *)
(***************************************************************************)
\* PatternVarPreprocessor.visit_Name: [node, mapping]
VisitName(node, mapping) ==
    IF ~IsUpper(node.id) THEN [node |-> node, mapping |-> mapping]
    ELSE LET astvar == IF node.id \in DOMAIN mapping THEN mapping[node.id]
                       ELSE <<"$">> \o node.id
         IN  [node |-> Name(astvar),
              mapping |-> [k \in DOMAIN mapping \cup {node.id} |->
                              IF k = node.id THEN astvar ELSE mapping[k]]]

\* processor.visit(node): visit_Name on a Name, generic_visit on the rest,
\* the children in order: [node, mapping]
RECURSIVE ProcessorVisit(_, _)
RECURSIVE ProcessorVisitKids(_, _, _, _)

ProcessorVisitKids(kids, i, done, mapping) ==
    IF i > Len(kids) THEN [kids |-> done, mapping |-> mapping]
    ELSE LET k == ProcessorVisit(kids[i], mapping)
         IN  ProcessorVisitKids(kids, i + 1, Append(done, k.node), k.mapping)

ProcessorVisit(node, mapping) ==
    IF node.kind = "Name" THEN VisitName(node, mapping)
    ELSE LET k == ProcessorVisitKids(node.kids, 1, <<>>, mapping)
         IN  [node |-> [node EXCEPT !.kids = k.kids], mapping |-> k.mapping]

\* [processor.visit(node) for node in nodes] with the one processor
RECURSIVE ProcessorVisitAll(_, _, _, _)
ProcessorVisitAll(nodes, i, done, mapping) ==
    IF i > Len(nodes) THEN done
    ELSE LET k == ProcessorVisit(nodes[i], mapping)
         IN  ProcessorVisitAll(nodes, i + 1, Append(done, k.node), k.mapping)

\* preprocess_pattern_vars(*nodes): the tree for one node, the list otherwise
PreprocessPatternVars(nodes) ==
    LET out == ProcessorVisitAll(nodes, 1, <<>>, <<>>)
    IN  IF Len(nodes) = 1 THEN out[1] ELSE out

\* the trees passed together in one call in the model
MaxTogether == 2

\* identifiers: X, XY, _X, Xa, a, _
Identifiers ==
    {<<"X">>, <<"X", "Y">>, <<"_", "X">>, <<"X", "a">>, <<"a">>, <<"_">>}

SourceTrees ==
    {Name(id) : id \in Identifiers}
    \cup {BinOp("Add", Name(l), Name(r)) : l \in Identifiers, r \in Identifiers}
    \cup {Call(Name(<<"f">>), <<Name(id)>>) : id \in Identifiers}

PreprocessInit ==
    /\ pp_nodes \in UNION {[1..n -> SourceTrees] : n \in 1..MaxTogether}
    /\ pp_ret = <<>>
    /\ pp_pc = "start"
    /\ SolveIdle
    /\ ProveIdle
    /\ RegistryIdle
    /\ MatchIdle
    /\ RewriteIdle
    /\ CompareIdle
    /\ MergeIdle
    /\ ParseIdle
    /\ ReplaceIdle
    /\ ResolveIdle
    /\ CoverIdle

CallPreprocess ==
    /\ pp_pc = "start"
    /\ pp_ret' = PreprocessPatternVars(pp_nodes)
    /\ pp_pc' = "done"
    /\ UNCHANGED pp_nodes
    /\ UNCHANGED <<solveVars, proveVars, registryVars, matchVars, rewriteVars>>
    /\ UNCHANGED <<compareVars, mergeVars, parseVars, replaceVars, resolveVars,
                   coverVars>>

PreprocessNext == CallPreprocess

SpecPreprocess == PreprocessInit /\ [][PreprocessNext]_vars

(***************************************************************************)
(* replace_pattern_vars on node objects.  The heap is the sequence of the  *)
(* node objects made so far; an address is a position in it; the kids of a *)
(* node object are addresses.                                              *)
(***************************************************************************)
\* a new node object for every node of the tree: [heap, root]
RECURSIVE Store(_, _)
RECURSIVE StoreKids(_, _, _, _)

StoreKids(heap, kids, i, done) ==
    IF i > Len(kids) THEN [heap |-> heap, kids |-> done]
    ELSE LET k == Store(heap, kids[i])
         IN  StoreKids(k.heap, kids, i + 1, Append(done, k.root))

Store(heap, tree) ==
    LET k == StoreKids(heap, tree.kids, 1, <<>>)
        h == Append(k.heap, [tree EXCEPT !.kids = k.kids])
    IN  [heap |-> h, root |-> Len(h)]

\* copy.deepcopy(node): [heap, root]
RECURSIVE DeepCopy(_, _)
RECURSIVE DeepCopyKids(_, _, _, _)

DeepCopyKids(heap, kids, i, done) ==
    IF i > Len(kids) THEN [heap |-> heap, kids |-> done]
    ELSE LET k == DeepCopy(heap, kids[i])
         IN  DeepCopyKids(k.heap, kids, i + 1, Append(done, k.root))

DeepCopy(heap, a) ==
    LET k == DeepCopyKids(heap, heap[a].kids, 1, <<>>)
        h == Append(k.heap, [heap[a] EXCEPT !.kids = k.kids])
    IN  [heap |-> h, root |-> Len(h)]

\* a variant that hands out the bound subtree itself
BoundCopy_Alias(heap, a) == [heap |-> heap, root |-> a]

\* copy.deepcopy(self.mapping[nodeid[1:]])
BoundCopy(heap, a) == DeepCopy(heap, a)

\* PatternVarReplacer(mapping).visit(node): [heap, root, raised]; the
\* generic_visit of NodeTransformer stores what the visit of a child
\* returns in the node visited
RECURSIVE ReplacerVisit(_, _, _)
RECURSIVE ReplacerVisitKids(_, _, _, _)

ReplacerVisitKids(heap, a, i, mapping) ==
    IF i > Len(heap[a].kids) THEN [heap |-> heap, root |-> a, raised |-> FALSE]
    ELSE LET k == ReplacerVisit(heap, heap[a].kids[i], mapping)
         IN  IF k.raised THEN k
             ELSE ReplacerVisitKids([k.heap EXCEPT ![a].kids[i] = k.root],
                                    a, i + 1, mapping)

ReplacerVisit(heap, a, mapping) ==
    IF heap[a].kind = "Name"
    THEN IF IsPatternVar(heap[a])
         THEN IF Tail(heap[a].id) \in DOMAIN mapping
              THEN LET c == BoundCopy(heap, mapping[Tail(heap[a].id)])
                   IN  [heap |-> c.heap, root |-> c.root, raised |-> FALSE]
              ELSE [heap |-> heap, root |-> 0, raised |-> TRUE]
         ELSE [heap |-> heap, root |-> a, raised |-> FALSE]
    ELSE ReplacerVisitKids(heap, a, 1, mapping)

\* replace_pattern_vars(node, bindings)
ReplaceOnHeap(heap, node, bindings) ==
    LET c == DeepCopy(heap, node)
    IN  ReplacerVisit(c.heap, c.root, bindings)

\* the templates, after preprocess_pattern_vars
Templates ==
    {Preprocess(t) : t \in
        {V("X"), V("a"),
         BinOp("Add", V("X"), Num("1")), BinOp("Add", V("X"), V("X")),
         BinOp("Add", V("X"), V("Y")), BinOp("Add", V("a"), V("Y")),
         Call(V("f"), <<V("X"), BinOp("Add", V("Y"), V("X"))>>)}}

\* the trees the bound subtrees are part of
MatchedTrees ==
    {Num("2"), BinOp("Add", Num("0"), Num("2")),
     BinOp("Add", A, Call(V("f"), <<B>>))}

\* the bindings over the node objects 1..n: each of X and Y unbound or
\* bound to one of them
BindingsOver(n) ==
    UNION {[vs -> 1..n] : vs \in SUBSET {<<"X">>, <<"Y">>}}

ReplaceInit ==
    /\ \E tree \in MatchedTrees, template \in Templates :
           LET m == Store(<<>>, tree)
               t == Store(m.heap, template)
           IN  /\ rp_heap = t.heap
               /\ rp_before = t.heap
               /\ rp_template = t.root
               /\ rp_bindings \in BindingsOver(m.root)
    /\ rp_ret = [root |-> 0, raised |-> FALSE]
    /\ rp_pc = "start"
    /\ SolveIdle
    /\ ProveIdle
    /\ RegistryIdle
    /\ MatchIdle
    /\ RewriteIdle
    /\ CompareIdle
    /\ MergeIdle
    /\ ParseIdle
    /\ PreprocessIdle
    /\ ResolveIdle
    /\ CoverIdle

\* ret = replace_pattern_vars(template, bindings)
CallReplace ==
    /\ rp_pc = "start"
    /\ LET r == ReplaceOnHeap(rp_heap, rp_template, rp_bindings)
       IN  /\ rp_heap' = r.heap
           /\ rp_ret' = [root |-> r.root, raised |-> r.raised]
    /\ rp_pc' = "done"
    /\ UNCHANGED <<rp_before, rp_template, rp_bindings>>
    /\ UNCHANGED <<solveVars, proveVars, registryVars, matchVars, rewriteVars>>
    /\ UNCHANGED <<compareVars, mergeVars, parseVars, preprocessVars, resolveVars,
                   coverVars>>

ReplaceNext == CallReplace

SpecReplace == ReplaceInit /\ [][ReplaceNext]_vars

(***************************************************************************)
(* PureScopeTracker.resolve.  A Name is described by what the lookups of   *)
(* resolve find under its identifier:                                      *)
(*   prefix       how the identifier starts: "plain" (no underscore),      *)
(*                "_" , "_z_x" (lower case after _z_), "_z_X" (upper case) *)
(*   in_builtins  hasattr(builtins, refname)                               *)
(*   in_crosshair hasattr(crosshair, refname)                              *)
(*   shadow_def   _pure_defs has a function _builtin_<refname>             *)
(*   core_def     _pure_defs has a function <refname>                      *)
(*   z_attr       Z has the attribute named by a _z_ identifier            *)
(*   scope        the depth of the innermost scope that binds the          *)
(*                identifier, 0 when no scope does                         *)
(***************************************************************************)
\* the scopes pushed around the Name in the model
MaxScopes == 2

Prefixes == {"plain", "_", "_z_x", "_z_X"}

\* the functions of _pure_defs are the top-level functions of crosshair,
\* so each is an attribute of the module; a function _builtin_<name> is
\* there for host built-ins only
ResolvedNodes ==
    {n \in [prefix : Prefixes, in_builtins : BOOLEAN, in_crosshair : BOOLEAN,
            shadow_def : BOOLEAN, core_def : BOOLEAN, z_attr : BOOLEAN,
            scope : 0..MaxScopes] :
        /\ n.core_def => n.in_crosshair
        /\ n.shadow_def => n.in_builtins
        /\ n.prefix /= "plain" => ~n.in_builtins
        /\ n.z_attr => n.prefix \in {"_z_x", "_z_X"}}

\* _pure_defs.get_fn(key).get_definition(), has telling whether the key is
\* in _pure_defs.functions
GetFnDefinition(key, has) ==
    IF has THEN [kind |-> "definition", of |-> key]
    ELSE [kind |-> "KeyError", of |-> key]

\* ScopeTracker.resolve: the definition in the innermost scope that binds
\* the identifier, the Name itself when none does
ScopeResolve(node) ==
    IF node.scope > 0 THEN [kind |-> "scope", of |-> "refname"]
    ELSE [kind |-> "Name", of |-> "refname"]

\* `if hasattr(builtins, refname)`
TakesBuiltinBranch(node) == node.in_builtins

\* PureScopeTracker.resolve(node) for a Name
Resolve(node) ==
    IF node.prefix = "plain"
    THEN IF TakesBuiltinBranch(node)
         THEN GetFnDefinition("_builtin_refname", node.shadow_def)
         ELSE IF node.in_crosshair
         THEN GetFnDefinition("refname", node.core_def)
         ELSE ScopeResolve(node)
    ELSE IF node.prefix = "_z_X"
    THEN [kind |-> "Invalid Z3 intrinsic", of |-> "refname"]
    ELSE IF node.prefix = "_z_x"
    THEN IF node.z_attr THEN [kind |-> "z3", of |-> "zname"]
         ELSE [kind |-> "AttributeError", of |-> "zname"]
    ELSE ScopeResolve(node)

ResolveInit ==
    /\ rs_node \in ResolvedNodes
    /\ rs_ret = [kind |-> "-", of |-> "-"]
    /\ rs_pc = "start"
    /\ SolveIdle
    /\ ProveIdle
    /\ RegistryIdle
    /\ MatchIdle
    /\ RewriteIdle
    /\ CompareIdle
    /\ MergeIdle
    /\ ParseIdle
    /\ PreprocessIdle
    /\ ReplaceIdle
    /\ CoverIdle

\* tracker.resolve(node)
CallResolve ==
    /\ rs_pc = "start"
    /\ rs_ret' = Resolve(rs_node)
    /\ rs_pc' = "done"
    /\ UNCHANGED rs_node
    /\ UNCHANGED <<solveVars, proveVars, registryVars, matchVars, rewriteVars>>
    /\ UNCHANGED <<compareVars, mergeVars, parseVars, preprocessVars, replaceVars,
                   coverVars>>

ResolveNext == CallResolve

SpecResolve == ResolveInit /\ [][ResolveNext]_vars

(***************************************************************************)
(* path_cover: the selection loop (crosshair/path_cover.py 101-117).       *)
(* A path is [id, offsets]: the PathSummary object, named by its place in  *)
(* the list explore_paths left, and its coverage.offsets_covered.          *)
(***************************************************************************)
\* len(p.coverage.offsets_covered - opcodes_found)
Gain(p, found) == Cardinality(p.offsets \ found)

\* a variant that takes the first path of the list
NextBest_First(ps, found) == ps[1]

\* max(paths, key=...): the first path of the list with the largest key
NextBest(ps, found) ==
    LET best == CHOOSE i \in DOMAIN ps :
                    /\ \A j \in DOMAIN ps : Gain(ps[j], found) <= Gain(ps[i], found)
                    /\ \A j \in 1..(i - 1) : Gain(ps[j], found) < Gain(ps[i], found)
    IN  ps[best]

\* if coverage_type == CoverageType.OPCODE:
\*     if len(cur_offsets - opcodes_found) == 0: break
Breaks(type, p, found) == type = "OPCODE" /\ Gain(p, found) = 0

\* paths = [p for p in paths if p is not next_best]
Without(ps, p) == SelectSeq(ps, LAMBDA q : q.id /= p.id)

\* the lists explore_paths may leave: each path a new PathSummary object
PathLists ==
    UNION {{[i \in 1..n |-> [id |-> i, offsets |-> f[i]]] :
               f \in [1..n -> SUBSET (1..MaxOffset)]} : n \in 0..MaxPaths}

CoverInit ==
    /\ cov_explored \in PathLists
    /\ cov_paths = cov_explored
    /\ coverage_type \in {"OPCODE", "PATH"}
    /\ opcodes_found = {}
    /\ selected = <<>>
    /\ cov_pc = "loop"
    /\ SolveIdle
    /\ ProveIdle
    /\ RegistryIdle
    /\ MatchIdle
    /\ RewriteIdle
    /\ CompareIdle
    /\ MergeIdle
    /\ ParseIdle
    /\ PreprocessIdle
    /\ ReplaceIdle
    /\ ResolveIdle

\* one iteration of `while paths:`
CoverIteration ==
    /\ cov_pc = "loop"
    /\ cov_paths /= <<>>
    /\ LET next_best == NextBest(cov_paths, opcodes_found)
       IN  IF Breaks(coverage_type, next_best, opcodes_found)
           THEN /\ cov_pc' = "break"
                /\ UNCHANGED <<cov_paths, opcodes_found, selected>>
           ELSE /\ selected' = Append(selected, next_best)
                /\ opcodes_found' = opcodes_found \cup next_best.offsets
                /\ cov_paths' = Without(cov_paths, next_best)
                /\ cov_pc' = "loop"
    /\ UNCHANGED <<cov_explored, coverage_type>>
    /\ UNCHANGED <<solveVars, proveVars, registryVars, matchVars, rewriteVars>>
    /\ UNCHANGED <<compareVars, mergeVars, parseVars, preprocessVars, replaceVars>>
    /\ UNCHANGED resolveVars

\* return selected: after the break, or when paths is empty
CoverReturn ==
    /\ \/ cov_pc = "break"
       \/ cov_pc = "loop" /\ cov_paths = <<>>
    /\ cov_pc' = "done"
    /\ UNCHANGED <<cov_explored, cov_paths, coverage_type, opcodes_found, selected>>
    /\ UNCHANGED <<solveVars, proveVars, registryVars, matchVars, rewriteVars>>
    /\ UNCHANGED <<compareVars, mergeVars, parseVars, preprocessVars, replaceVars>>
    /\ UNCHANGED resolveVars

CoverNext == CoverIteration \/ CoverReturn

SpecCover == CoverInit /\ [][CoverNext]_vars

(***************************************************************************)
(* The claims about solve and check_assertion_fn (SpecSolve).              *)
(***************************************************************************)
SolveRan == solve_op = "solve" /\ solve_pc /= "start"

CheckRan == solve_op = "check_assertion_fn" /\ solve_pc /= "start"

\* C1, as stated: in either mode, when the solver answers unsat and the
\* 'conclusion' label is not in the unsat core, solve raises the soundness
\* failure and does not return True.
C1_AsStated ==
    (SolveRan /\ solver_outcome.kind = "unsat" /\ ~core.conclusion)
        => (raised = "Soundness" /\ ret /= "True")

\* C1, amended: in tracked mode (the repro switch off), when the solver
\* answers unsat and the 'conclusion' label is not in the unsat core, solve
\* raises the soundness failure and returns no verdict.
C1_TrackedSoundness ==
    (SolveRan /\ ~make_repro_case /\ solver_outcome.kind = "unsat"
        /\ ~core.conclusion)
        => (raised = "Soundness" /\ solve_pc = "raised" /\ ret = "-")

C1_Witness ==
    /\ SolveRan /\ ~make_repro_case /\ solver_outcome.kind = "unsat"
    /\ ~core.conclusion /\ core.labels /= {} /\ raised = "Soundness"

\* the part of the verdict map that C2 states and the code has
VerdictOfOtherOutcomes ==
    /\ solver_outcome.kind = "sat" => (ret = "False" /\ raised = "none")
    /\ solver_outcome.kind = "unknown" => (ret = "None" /\ raised = "none")
    /\ (solver_outcome.kind = "exception" /\ solver_outcome.value = "canceled")
           => (ret = "None" /\ raised = "none")
    /\ (solver_outcome.kind = "exception" /\ solver_outcome.value /= "canceled")
           => (ret = "-" /\ raised = "Z3Exception" /\ solve_pc = "raised")

\* C2, as stated: the verdict is a function of the solver outcome alone:
\* unsat gives True, sat gives False, unknown gives None, a canceled solver
\* exception gives None, any other solver exception propagates.
C2_AsStated ==
    SolveRan =>
        /\ solver_outcome.kind = "unsat" => (ret = "True" /\ raised = "none")
        /\ VerdictOfOtherOutcomes

\* C2, amended: as stated, except that unsat gives True only in repro mode or
\* when the 'conclusion' label is in the unsat core; in tracked mode without
\* it the soundness failure is raised and no verdict is returned.
C2_VerdictMap ==
    SolveRan =>
        /\ (solver_outcome.kind = "unsat" /\ (make_repro_case \/ core.conclusion))
               => (ret = "True" /\ raised = "none")
        /\ (solver_outcome.kind = "unsat" /\ ~make_repro_case /\ ~core.conclusion)
               => (ret = "-" /\ raised = "Soundness")
        /\ VerdictOfOtherOutcomes

C2_Witness ==
    /\ SolveRan /\ solver_outcome.kind = "exception"
    /\ solver_outcome.value = "canceled" /\ ret = "None"

\* C3: with a counterexample from the dynamic oracle check_assertion_fn never
\* returns True: a prover verdict of True raises the conflict error, a verdict
\* of False or None returns (False, []).
C3_CounterexampleWins ==
    (CheckRan /\ counterexample) =>
        /\ ret /= "True"
        /\ proved = "True" => (raised = "Conflict" /\ solve_pc = "raised")
        /\ proved \in {"False", "None"}
               => (ret = "False" /\ report = <<>> /\ raised = "none"
                   /\ solve_pc = "returned")

C3_Witness ==
    /\ CheckRan /\ counterexample /\ proved = "True" /\ raised = "Conflict"

\* the ids of the statements of s that satisfy the test
IdsOf(s, Test(_)) == {s[i].id : i \in {j \in 1..Len(s) : Test(s[j])}}

ScoresOf(s, Test(_)) == {s[i].score : i \in {j \in 1..Len(s) : Test(s[j])}}

IsScored(a) == a.scored

IsRequired(a) == ~a.scored

\* C10: solve asserts every required statement, then the min(120, n) scored
\* statements of lowest score in ascending order: no required statement is
\* dropped and no dropped scored statement scores below a kept one.
C10_AssertedSet ==
    solve_pc /= "start" =>
        LET n == Cardinality(IdsOf(assumptions, IsScored))
            nreq == Cardinality(IdsOf(assumptions, IsRequired))
            kept == IdsOf(asserted, IsScored)
            IsDropped(a) == a.scored /\ a.id \notin kept
        IN  /\ Len(asserted) = nreq + Min(120, n)
            /\ Range(asserted) \subseteq Range(assumptions)
            /\ IdsOf(asserted, IsRequired) = IdsOf(assumptions, IsRequired)
            /\ Cardinality(kept) = Min(120, n)
            /\ \A i \in 1..Len(asserted) : asserted[i].scored <=> i > nreq
            /\ \A i \in 1..(Len(asserted) - 1) :
                   asserted[i].scored => asserted[i].score <= asserted[i + 1].score
            /\ \A d \in ScoresOf(assumptions, IsDropped) :
                   \A k \in ScoresOf(asserted, IsScored) : d >= k

C10_Witness ==
    /\ solve_pc /= "start"
    /\ Cardinality(IdsOf(assumptions, IsScored)) > 120
    /\ IdsOf(assumptions, IsRequired) /= {}
    /\ Cardinality(ScoresOf(asserted, IsScored)) > 1
    /\ \E a \in Range(assumptions) : a.scored /\ a \notin Range(asserted)

(***************************************************************************)
(* The claims about the knowledge-expansion loop (SpecProve).              *)
(***************************************************************************)
\* the definitions reachable from the set S by at most k references
RECURSIVE Reach(_, _)
Reach(S, k) ==
    IF k = 0 THEN S
    ELSE Reach(S \cup UNION {uses[d] : d \in S}
                 \cup {d \in S : HasDefinitionalAssertion(d)}, k - 1)

GlobalUses == UNION {globals[i].used : i \in 1..Len(globals)}

\* the transitive reference closure of the conclusion and the globals
Closure == Reach(concl_uses \cup GlobalUses, NumDefs)

HandledAfter(k) == UNION {rounds[i] : i \in 1..k}

\* the rounds after which every definition of the closure had been handled
ExhaustedAfter ==
    {k \in 0..iter : HandledAfter(k) = {FnKey(d) : d \in Closure}}

LoopEnded == prove_pc \in {"score", "done"} \/ (prove_pc = "expand" /\ iter = 10)

\* the rounds run are at most 10 and are exactly those logged; a loop that
\* ended before its 10th round ended on a round that handled nothing; and a
\* closure exhausted after k < 10 rounds ends the loop with round k + 1
RoundsBounded ==
    /\ iter <= 10 /\ Len(rounds) = iter
    /\ (LoopEnded /\ iter < 10) => rounds[iter] = {}
    /\ LoopEnded =>
           \A k \in ExhaustedAfter :
               k < 10 => (iter <= k + 1 /\ rounds[iter] = {} /\ ~addedone)

\* how far the proof attempt has come: the phases in order, the rounds within
\* the loop
Progress ==
    IF prove_pc = "compile" THEN 0
    ELSE IF prove_pc = "expand" THEN 1 + iter
    ELSE IF prove_pc = "score" THEN 12
    ELSE 13

\* C6: the loop ends after at most 10 rounds whatever the reference graph
\* (every step advances, and no round is run after the 10th), and when the
\* closure is exhausted before the 10th round it ends with the round after
\* that one, a round that adds no definition.
C6_LoopTerminates ==
    /\ []RoundsBounded
    /\ [][Progress' > Progress /\ iter' \in {iter, iter + 1}]_vars

C6_Witness ==
    /\ prove_pc = "done" /\ iter = 10 /\ 9 \in ExhaustedAfter
    /\ 8 \notin ExhaustedAfter /\ rounds[10] = {}
    /\ \E d \in Closure : d \in uses[d]

\* C7: env.refs only grows during a proof attempt: every step keeps every
\* entry, with the constant it had.
C7_RefsOnlyGrow ==
    [][\A k \in DOMAIN refs : k \in DOMAIN refs' /\ refs'[k] = refs[k]]_vars

C7_Witness ==
    /\ prove_pc = "done" /\ iter >= 3
    /\ \E k \in DOMAIN refs : k.kind = "lambda_arg"
    /\ \E k \in DOMAIN refs : k.kind = "def_arg"
    /\ \E d \in Defs : FnKey(d) \in DOMAIN refs /\ FnKey(d) \notin handled

\* the sites of the lambdas compiled so far: each has left its defining
\* equation in env.support or, once absorbed, in the baseline
CompiledLambdas ==
    {Site(s) : s \in {x \in Range(baseline \o support) : x.kind = "lambda_eq"}}

\* two parameters of different functions or lambdas have different constants
ParametersApart ==
    \A j, k \in DOMAIN refs :
        (j.kind /= "fn" /\ k.kind /= "fn" /\ j.of /= k.of) => refs[j] /= refs[k]

\* two different lambdas have different handles
HandlesApart ==
    \A s, t \in CompiledLambdas :
        s /= t => LambdaHandle(lambda_at[s]) /= LambdaHandle(lambda_at[t])

\* C21: within one proof attempt two distinct definitions (two parameters of
\* different functions or lambdas, or two distinct lambdas) never have the
\* same logic constant, so that the defining equation of one lambda is not an
\* equation about the handle of another.
C21_ConstantsFresh == ParametersApart /\ HandlesApart

\* how many times statement x is in the baseline
Times(x) == Cardinality({i \in DOMAIN baseline : baseline[i] = x})

\* the statements the loop owes to definition d: one per attached assertion,
\* the function-tag fact, and the definitional assertion of an annotated d
StatementsFor(d) ==
    {[kind |-> "assertion", of |-> d, n |-> i] :
        i \in 1..(Cardinality(uses[d]) + (IF d \in lambdas THEN 1 ELSE 0))}
    \cup {[kind |-> "is_func", of |-> d, n |-> 0]}
    \cup (IF d % 2 = 0 THEN {[kind |-> "assertion", of |-> d, n |-> 0]} ELSE {})

\* the baseline holds each statement of a handled definition once, and none of
\* a definition not handled
OncePerHandled ==
    \A d \in Defs :
        /\ \A x \in StatementsFor(d) :
               Times(x) = (IF FnKey(d) \in handled THEN 1 ELSE 0)
        /\ \A i \in DOMAIN baseline :
               (baseline[i].of = d /\ baseline[i].kind \in {"assertion", "is_func"})
                   => baseline[i] \in StatementsFor(d)

\* a round handles every function definition that is a key of refs when it
\* starts
RoundHandlesReferenced ==
    iter' = iter + 1 =>
        \A k \in DOMAIN refs : k.kind = "fn" => k \in handled'

\* C22: every registry function definition that is a key of refs at the start
\* of some round is handled by that round, and the attached assertions, the
\* function-tag fact and the definitional assertion (if any) of a handled
\* definition are each in the axiom list exactly once, in every later round
\* and when the loop has ended.
C22_HandledOnce == []OncePerHandled /\ [][RoundHandlesReferenced]_vars

C22_Witness ==
    /\ prove_pc = "done" /\ iter >= 4 /\ iter < 10
    /\ \E d \in Defs : FnKey(d) \in rounds[3] /\ 1 \in uses[d] /\ d \in lambdas
    /\ Times([kind |-> "assertion", of |-> 2, n |-> 0]) = 1
    /\ Times([kind |-> "is_func", of |-> 1, n |-> 0]) = 1

\* the two support formulas of the lambda of assertion n of `of`
SupportOf(of, n) ==
    {[kind |-> k, of |-> of, n |-> n] : k \in {"lambda_eq", "lambda_is_func"}}

\* the support formulas emitted so far: by the conclusion, by the module-level
\* assertions, and by the assertions of the definitions handled
EmittedSupport ==
    (IF 0 \in lambdas /\ prove_pc /= "compile" THEN SupportOf(0, 0) ELSE {})
    \cup UNION {SupportOf(0, globals[i].n) :
                  i \in {j \in DOMAIN globals :
                             globals[j].lambda /\ prove_pc /= "compile"}}
    \cup UNION {SupportOf(d, Cardinality(uses[d]) + 1) :
                  d \in {e \in Defs \cap lambdas : FnKey(e) \in handled}}

\* C23: every support formula emitted during the proof attempt, in whichever
\* round, is among the statements passed to solve, the formulas of the last
\* round of a loop that stopped at the round cap included.
C23_SupportReachesSolve ==
    prove_pc = "done" => \A x \in EmittedSupport : x \in Range(baseline)

\* C24: a run of solve in tracked mode leaves an existing repro.smt2 as it
\* was; a repro-mode run that returns replaces its content with the asserted
\* formulas followed by the check-sat and get-model directives.
C24_TrackedLeavesFile ==
    [][(solve_pc = "start" /\ solve_pc' /= "start") =>
          IF make_repro_case
          THEN solve_pc' = "raised"
               \/ /\ repro_file'.exists
                  /\ Len(repro_file'.content) = Len(asserted') + 3
                  /\ \A i \in 1..Len(asserted') :
                         repro_file'.content[i] =
                             [line |-> "assert", of |-> asserted'[i].id]
                  /\ repro_file'.content[Len(asserted') + 1] =
                         [line |-> "assert", of |-> 0]
                  /\ repro_file'.content[Len(asserted') + 2].line = "check-sat"
                  /\ repro_file'.content[Len(asserted') + 3].line = "get-model"
          ELSE repro_file.exists => repro_file'.content = repro_file.content]_vars

(***************************************************************************)
(* The claims about the registry (SpecRegistry).                           *)
(***************************************************************************)
\* the stored definition is the argument of the first set_definition call,
\* and the last call raised if it was not the first on its FnInfo
DefinitionIsFirst ==
    /\ \A n \in DOMAIN functions :
           /\ set_calls[n] /= <<>> => functions[n].definition = set_calls[n][1]
           /\ set_calls[n] = <<>> => functions[n].definition = 0
    /\ last_call.op = "set_definition" =>
           (last_call.raised = "multiply defined function"
               <=> Len(set_calls[last_call.name]) > 1)

\* a set_definition call that was not the first leaves its FnInfo as it was
LaterCallChangesNothing ==
    \A n \in DOMAIN functions :
        (Len(set_calls'[n]) > Len(set_calls[n]) /\ Len(set_calls[n]) >= 1)
            => (n \in DOMAIN functions' /\ functions'[n] = functions[n]
                /\ last_call'.raised = "multiply defined function")

\* C8: a FnInfo's definition is set once: it is the argument of the first
\* set_definition call, every later call raises 'multiply defined function',
\* and a failing call leaves definition, definitional_assertion and
\* assertions unchanged.
C8_DefinitionSetOnce ==
    []DefinitionIsFirst /\ [][LaterCallChangesNothing]_vars

C8_Witness ==
    /\ last_call.op = "set_definition"
    /\ last_call.raised = "multiply defined function"
    /\ Len(set_calls[last_call.name]) = 3
    /\ set_calls[last_call.name][1] /= last_call.arg
    /\ functions[last_call.name].assertions /= <<>>
    /\ functions[last_call.name].definitional_assertion /= 0

(***************************************************************************)
(* The claims about matches and replace_pattern_vars (SpecMatch).          *)
(***************************************************************************)
\* C5: when matches(T, P, {}) succeeds with bindings B,
\* replace_pattern_vars(P, B) is structurally equal to T, also for BoolOp
\* nodes with another number of values than the pattern and for patterns
\* that repeat a variable.
C5_RoundTrip ==
    (m_pc = "replaced" /\ m_res = "True") => m_out = m_node

\* node and pattern are equal everywhere except at pattern variables: the
\* same kind, the same operator, name or number, the same number of children
RECURSIVE StructurallyEqual(_, _)
StructurallyEqual(n, p) ==
    \/ IsPatternVar(p)
    \/ /\ n.kind = p.kind
       /\ n.id = p.id
       /\ Len(n.kids) = Len(p.kids)
       /\ \A i \in 1..Len(p.kids) : StructurallyEqual(n.kids[i], p.kids[i])

\* C11: matches returns True only if node and pattern are structurally
\* equal everywhere except at pattern-variable positions, with the same
\* number of children at every Call and BoolOp position.
C11_MatchIsStructural ==
    (m_pc /= "start" /\ m_res = "True") => StructurallyEqual(m_node, m_patt)

\* two Call nodes whose callees are Names with different identifiers
DifferentCallees(n, p) ==
    /\ n.kind = "Call" /\ p.kind = "Call"
    /\ n.kids[1].kind = "Name" /\ p.kids[1].kind = "Name"
    /\ ~IsPatternVar(n.kids[1]) /\ ~IsPatternVar(p.kids[1])
    /\ n.kids[1].id /= p.kids[1].id

\* two BinOp nodes, or two BoolOp nodes, with different operator types
DifferentOperators(n, p) ==
    /\ n.kind = p.kind
    /\ n.kind \in {"BinOp", "BoolOp"}
    /\ n.id /= p.id

\* C12: patthash gives different keys to nodes of different kinds, to BinOp
\* or BoolOp nodes with different operator types, and to Call nodes with
\* different callee names.
C12_HashSeparates ==
    (m_pc = "matched" /\ ~IsPatternVar(m_patt)) =>
        ((\/ m_node.kind /= m_patt.kind
          \/ DifferentOperators(m_node, m_patt)
          \/ DifferentCallees(m_node, m_patt))
             => PattHash(m_node) /= PattHash(m_patt))

\* the pattern is no pattern variable and its kind is outside the handled set
HandledKinds ==
    {"Call", "Name", "Module", "Expr", "BinOp", "BoolOp", "Num", "list", "arg"}

UnhandledPattern == ~IsPatternVar(m_patt) /\ m_patt.kind \notin HandledKinds

\* C17 as stated: for such a pattern matches raises 'Unhandled node type'
\* and returns neither True nor False, for every node it is compared with.
C17_AsStated ==
    (m_pc = "matched" /\ UnhandledPattern) => m_res = "Unhandled"

\* C17: for such a pattern matches never returns True: it raises
\* 'Unhandled node type' when the node has the pattern's type, and for a
\* node of another type it returns False and leaves the bindings empty.
C17_ClosedWorld ==
    (m_pc = "matched" /\ UnhandledPattern) =>
        IF m_node.kind = m_patt.kind
        THEN m_res = "Unhandled"
        ELSE m_res = "False" /\ m_bind = <<>>

C17_Witness ==
    /\ m_pc = "matched"
    /\ UnhandledPattern
    /\ m_node.kind = m_patt.kind
    /\ m_res = "Unhandled"

(***************************************************************************)
(* The claims about the rewrite engines (SpecRewrite).                     *)
(***************************************************************************)
RECURSIVE NodesOf(_)
NodesOf(t) ==
    {t} \cup UNION {NodesOf(t.kids[i]) : i \in 1..Len(t.kids)}

\* the rules engine e holds, its inner engine's included
RulesOf(e) ==
    UNION {Range(Lookup(rule_index, e, h)) : h \in Hashes}

\* the rule matches the node and its condition holds on the bindings
Applies(rule, node) ==
    LET m == Matches(node, rule.patt, <<>>)
    IN  m.res = "True" /\ Cond(rule.cond, m.bind) = "True"

RewriteIdempotent ==
    (rw_pc = "done" /\ rw_out.status = "ok") => rw_again = rw_out

\* C4: when rewrite terminates its result is a fixpoint: rewriting the
\* result gives the same tree, and no node of the result matches a rule of
\* the engine whose condition holds.
C4_RewriteIsFixpoint ==
    (rw_pc = "done" /\ rw_out.status = "ok") =>
        /\ rw_again = rw_out
        /\ \A node \in NodesOf(rw_out.node), rule \in RulesOf(rw_engine) :
               ~Applies(rule, node)

\* the rules the add calls on engine e gave it, as stored, under hash h
OwnAdds(e, h) ==
    LET mine == SelectSeq(adds, LAMBDA a : a.engine = e)
    IN  SelectSeq([i \in 1..Len(mine) |-> Stored(mine[i].rule)],
                  LAMBDA r : PattHash(r.patt) = h)

\* C9: add calls on a wrapper leave the base rule set unchanged: every
\* lookup on the base engine returns the rules added to the base engine,
\* and a wrapper's lookup returns no rule added to another wrapper.
C9_BaseUnchanged ==
    /\ \A h \in Hashes : Lookup(rule_index, "base", h) = OwnAdds("base", h)
    /\ \A w \in Engines \ {"base"}, h \in Hashes :
           \A i \in 1..Len(adds) :
               (adds[i].engine \notin {w, "base"})
                   => Stored(adds[i].rule) \notin Range(Lookup(rule_index, w, h))

\* the candidates rewrite_top tries at node on engine e
Candidates(e, node) == Range(Lookup(rule_index, e, PattHash(node)))

\* C25: the hash index loses no match: a rule held by an engine whose pattern
\* matches a node of the tree being rewritten is among the candidates looked
\* up for that node, a rule whose pattern is a bare pattern variable included.
C25_IndexLosesNoMatch ==
    rw_pc \in {"done", "top"} =>
        \A node \in NodesOf(rw_in), rule \in RulesOf(rw_engine) :
            Matches(node, rule.patt, <<>>).res = "True"
                => rule \in Candidates(rw_engine, node)

\* the offsets covered by the paths of a list
Covered(ps) == UNION {ps[i].offsets : i \in DOMAIN ps}

\* each selected path is an explored path, selected once
SelectedOnce ==
    \A i \in DOMAIN selected :
        /\ selected[i].id \in DOMAIN cov_explored
        /\ selected[i] = cov_explored[selected[i].id]
        /\ \A j \in DOMAIN selected : selected[j].id = selected[i].id => j = i

\* what path_cover returns
CoverReturned ==
    cov_pc = "done" =>
        /\ SelectedOnce
        /\ coverage_type = "OPCODE" =>
               /\ \A i \in DOMAIN selected :
                      selected[i].offsets \ Covered(SubSeq(selected, 1, i - 1)) /= {}
               /\ Covered(selected) = Covered(cov_explored)
        /\ coverage_type = "PATH" =>
               \A k \in DOMAIN cov_explored : \E i \in DOMAIN selected : selected[i].id = k

\* what is left to do: the paths not yet selected, then the return
CoverMeasure ==
    Len(cov_paths) + (IF cov_pc = "loop" THEN 2 ELSE IF cov_pc = "break" THEN 1 ELSE 0)

\* C26: the selection loop terminates (every step brings it nearer to the
\* return); in OPCODE mode the paths returned are explored paths, each
\* selected at most once, each covering an offset that no earlier selected
\* path covers, and together covering every offset an explored path covers;
\* in PATH mode every explored path is returned exactly once.
C26_GreedyCover == []CoverReturned /\ [][CoverMeasure' < CoverMeasure]_vars

C26_Witness ==
    /\ cov_pc = "done" /\ coverage_type = "OPCODE"
    /\ Len(selected) = 2 /\ Len(cov_explored) = 3
    /\ \E i \in DOMAIN cov_paths : cov_paths[i].offsets /= {}
    /\ selected[1].id < selected[2].id

\* the variables a pattern binds
RECURSIVE PatternVars(_)
PatternVars(p) ==
    IF IsPatternVar(p) THEN {Tail(p.id)}
    ELSE UNION {PatternVars(p.kids[i]) : i \in 1..Len(p.kids)}

\* C13: when rewrite_top evaluates the condition and the substitution of a
\* candidate, the bindings hold exactly the variables of that candidate's
\* pattern, and a failed call of matches leaves the bindings empty.
C13_BindingsPerAttempt ==
    rw_pc = "top" =>
        /\ rw_top.matched =>
               DOMAIN rw_top.bind = PatternVars(rw_top.cands[rw_top.rule].patt)
        /\ \A i \in 1..Len(rw_top.cands) :
               LET m == Matches(rw_in, rw_top.cands[i].patt, <<>>)
               IN  m.res = "False" => m.bind = <<>>

(***************************************************************************)
(* The claims about the expression compiler (SpecCompare).                 *)
(***************************************************************************)
\* operand i of the chain: the left operand for 0, comparator i otherwise
ChainOperand(node, i) == IF i = 0 THEN node.left ELSE node.comparators[i]

\* the compiled comparison of the adjacent pair (e[i-1], e[i])
AdjacentPair(node, i) ==
    App(FnConst(<<"_op_", node.ops[i]>>),
        Cons(Cons(Empty, Wrapint(ChainOperand(node, i - 1).n)),
             Wrapint(ChainOperand(node, i).n)))

\* And(pair i, And(pair i+1, ...)) up to the last pair
RECURSIVE RightNested(_, _)
RightNested(node, i) ==
    IF i = Len(node.ops) THEN AdjacentPair(node, i)
    ELSE App(FnConst(<<"_op_", "And">>),
             Cons(Cons(Empty, AdjacentPair(node, i)), RightNested(node, i + 1)))

\* C14: a chained comparison compiles to the right-nested conjunction of
\* its adjacent pairs in source order, each with its own operator, and
\* every operand is visited exactly once.
C14_ChainedComparison ==
    cmp_pc = "done" =>
        /\ cmp_ret = RightNested(cmp_node, 1)
        /\ Len(cmp_visited) = Len(cmp_node.comparators) + 1
        /\ \A i \in 0..Len(cmp_node.comparators) :
               Cardinality({k \in 1..Len(cmp_visited) : cmp_visited[k] = i}) = 1

C14_Witness ==
    /\ cmp_pc = "done"
    /\ Len(cmp_node.ops) = 3
    /\ cmp_node.ops[1] /= cmp_node.ops[2]
    /\ cmp_node.ops[2] /= cmp_node.ops[3]
    /\ cmp_node.comparators[1].n = cmp_node.comparators[2].n
    /\ cmp_ret.args[2].args[2].args[1] = FnConst(<<"_op_", "And">>)

(***************************************************************************)
(* The claims about tuples and argument lists (SpecMerge).                 *)
(***************************************************************************)
\* the sequence of elements a tuple term stands for, with Concat read as
\* concatenation, cons as appending one element, and a free constant as
\* the tuple env gives it
RECURSIVE Denote(_, _)
Denote(t, env) ==
    IF t.op = "_" THEN <<>>
    ELSE IF t.op = "a" THEN Append(Denote(t.args[1], env), t.args[2])
    ELSE IF t.op = "Concat" THEN Denote(t.args[1], env) \o Denote(t.args[2], env)
    ELSE env[t.val[1]]

\* each plain element appended and each starred value concatenated, in order
RECURSIVE FlatSequence(_, _, _)
FlatSequence(args, i, env) ==
    IF i > Len(args) THEN <<>>
    ELSE (IF args[i].op = "Starred" THEN Denote(args[i].args[1], env)
          ELSE <<args[i]>>) \o FlatSequence(args, i + 1, env)

\* the tuple term of the state: the value of visit_Tuple, the argument
\* list of the application
MergedTerm == IF mrg_pc = "call" THEN mrg_ret.args[2] ELSE mrg_ret

\* the tuple terms at hand to instantiate the baseline equations with
TermsAtHand ==
    {MergedTerm, Empty}
    \cup {mrg_args[i].args[1] : i \in {k \in 1..Len(mrg_args) : mrg_args[k].op = "Starred"}}

BaselineHolds ==
    \A g \in TermsAtHand, r \in TermsAtHand, x \in {Wrapint(0), MergedTerm} :
        \A k \in 1..4 :
            LET eq == BaselineEquations(g, r, x)[k]
            IN  Denote(eq.lhs, mrg_env) = Denote(eq.rhs, mrg_env)

\* C15: the left fold of _merge_arg from the empty tuple stands, in the
\* reading the four baseline equations hold in, for the flat sequence of
\* the plain elements and the starred values in order; a starred value
\* merged onto the empty tuple is the value itself and a plain element is
\* consed onto the accumulator.
C15_MergeIsFlat ==
    mrg_pc \in {"tuple", "call"} =>
        /\ BaselineHolds
        /\ Denote(MergedTerm, mrg_env) = FlatSequence(mrg_args, 1, mrg_env)
        /\ (Len(mrg_args) = 1 /\ mrg_args[1].op = "Starred")
               => MergedTerm = mrg_args[1].args[1]
        /\ (Len(mrg_args) > 0 /\ mrg_args[Len(mrg_args)].op /= "Starred")
               => /\ MergedTerm.op = "a"
                  /\ MergedTerm.args[2] = mrg_args[Len(mrg_args)]

C15_Witness ==
    /\ mrg_pc = "call"
    /\ Len(mrg_args) = 3
    /\ mrg_args[1] = Starred(FnConst("r"))
    /\ mrg_args[2] = Wrapint(4)
    /\ mrg_args[3].op = "Starred"
    /\ mrg_ret.args[2].op = "Concat"
    /\ Len(Denote(mrg_ret.args[2], mrg_env)) = 6

(***************************************************************************)
(* The claims about parse_pure (SpecParse).                                *)
(***************************************************************************)
\* the names the module defines, and '' of the global assertions
DefinedNames ==
    {""} \cup {parse_body[i].name :
                  i \in {k \in 1..Len(parse_body) :
                            parse_body[k].function /\ ~parse_body[k].assertion}}

\* C16: after the scan every _assert_<n> is in the assertion list of the
\* FnInfo of n and every other function is the definition of the FnInfo of
\* its name, whatever the order of assertion and definition; the only
\* lookup error is an assertion whose target is never defined.
C16_ParseOrderFree ==
    parse_pc = "done" =>
        /\ parse_raised = "KeyError" =>
               \E i \in 1..Len(parse_body) :
                   /\ parse_body[i].function /\ parse_body[i].assertion
                   /\ parse_body[i].name \notin DefinedNames
        /\ parse_raised = "none" =>
               \A i \in 1..Len(parse_body) :
                   parse_body[i].function =>
                       IF parse_body[i].assertion
                       THEN i \in Range(functions[parse_body[i].name].assertions)
                       ELSE functions[parse_body[i].name].definition = i

(***************************************************************************)
(* The claims about preprocess_pattern_vars (SpecPreprocess).              *)
(***************************************************************************)
\* the uppercase identifiers among Identifiers: X, XY, _X
Uppercase == {<<"X">>, <<"X", "Y">>, <<"_", "X">>}

\* out is src with every uppercase Name tagged and nothing else changed
RECURSIVE TaggedCopy(_, _)
TaggedCopy(src, out) ==
    /\ out.kind = src.kind
    /\ Len(out.kids) = Len(src.kids)
    /\ out.id = IF src.kind = "Name" /\ src.id \in Uppercase
                THEN <<"$">> \o src.id ELSE src.id
    /\ \A i \in 1..Len(src.kids) : TaggedCopy(src.kids[i], out.kids[i])

\* the identifiers of the Names of a tree
RECURSIVE NamesOf(_)
NamesOf(t) ==
    IF t.kind = "Name" THEN {t.id}
    ELSE UNION {NamesOf(t.kids[i]) : i \in 1..Len(t.kids)}

\* the trees returned, as a list
Returned == IF Len(pp_nodes) = 1 THEN <<pp_ret>> ELSE pp_ret

\* C18: preprocess_pattern_vars tags exactly the Names with an uppercase
\* identifier, and an identifier gets the same tagged name in every tree
\* passed together.
C18_TagsUppercaseNames ==
    pp_pc = "done" =>
        /\ Len(Returned) = Len(pp_nodes)
        /\ \A k \in 1..Len(pp_nodes) : TaggedCopy(pp_nodes[k], Returned[k])
        /\ \A j \in 1..Len(pp_nodes), k \in 1..Len(pp_nodes) :
               \A id \in (NamesOf(pp_nodes[j]) \cap NamesOf(pp_nodes[k])) \cap Uppercase :
                   \E tagged \in NamesOf(Returned[j]) \cap NamesOf(Returned[k]) :
                       tagged = <<"$">> \o id

C18_Witness ==
    /\ pp_pc = "done"
    /\ Len(pp_nodes) = 2
    /\ pp_nodes[1] = BinOp("Add", Name(<<"X">>), Name(<<"X", "a">>))
    /\ pp_nodes[2] = BinOp("Add", Name(<<"a">>), Name(<<"X">>))
    /\ pp_ret[2].kids[2] = pp_ret[1].kids[1]
    /\ pp_ret[1].kids[1].id = <<"$", "X">>

(***************************************************************************)
(* The claims about replace_pattern_vars on node objects (SpecReplace).    *)
(***************************************************************************)
\* the tree of node objects at address a
RECURSIVE TreeAt(_, _)
TreeAt(heap, a) ==
    [heap[a] EXCEPT !.kids = [i \in 1..Len(heap[a].kids) |-> TreeAt(heap, heap[a].kids[i])]]

\* the node objects of the tree at address a
RECURSIVE ObjectsAt(_, _)
ObjectsAt(heap, a) ==
    {a} \cup UNION {ObjectsAt(heap, heap[a].kids[i]) : i \in 1..Len(heap[a].kids)}

\* the number of nodes of a tree
RECURSIVE Size(_)
RECURSIVE SizeFrom(_, _)
SizeFrom(kids, i) ==
    IF i > Len(kids) THEN 0 ELSE Size(kids[i]) + SizeFrom(kids, i + 1)

Size(t) == 1 + SizeFrom(t.kids, 1)

\* the bindings as trees
BoundTrees == [v \in DOMAIN rp_bindings |-> TreeAt(rp_before, rp_bindings[v])]

\* C19: replace_pattern_vars leaves the template and the bindings
\* unchanged and returns a tree of new node objects, no object shared with
\* the template or a bound subtree and none used twice, so that every
\* occurrence of a variable has its own copy; a template variable without a
\* binding makes the call fail.
C19_ReplaceCopies ==
    rp_pc = "done" =>
        /\ \A a \in 1..Len(rp_before) : rp_heap[a] = rp_before[a]
        /\ rp_ret.raised <=>
               PatternVars(TreeAt(rp_before, rp_template)) \ DOMAIN rp_bindings /= {}
        /\ ~rp_ret.raised =>
               /\ ObjectsAt(rp_heap, rp_ret.root) \cap (1..Len(rp_before)) = {}
               /\ Cardinality(ObjectsAt(rp_heap, rp_ret.root))
                      = Size(TreeAt(rp_heap, rp_ret.root))
               /\ TreeAt(rp_heap, rp_ret.root)
                      = ReplacePatternVars(TreeAt(rp_before, rp_template), BoundTrees)

C19_Witness ==
    /\ rp_pc = "done"
    /\ ~rp_ret.raised
    /\ TreeAt(rp_before, rp_template).kind = "Call"
    /\ DOMAIN rp_bindings = {<<"X">>, <<"Y">>}
    /\ rp_bindings[<<"X">>] = rp_bindings[<<"Y">>]
    /\ Len(rp_before[rp_bindings[<<"X">>]].kids) = 2

(***************************************************************************)
(* The claims about PureScopeTracker.resolve (SpecResolve).                *)
(***************************************************************************)
\* C20: for a Name not starting with an underscore resolve returns the
\* shadowing definition _builtin_<name> if there is one, else the core pure
\* definition of the name, else what the scope chain gives; a name without
\* a shadow definition goes through the later tiers and does not raise.
C20_TieredLookup ==
    (rs_pc = "done" /\ rs_node.prefix = "plain") =>
        /\ rs_ret.kind \notin {"KeyError", "AttributeError", "Invalid Z3 intrinsic"}
        /\ rs_ret = IF rs_node.shadow_def
                    THEN [kind |-> "definition", of |-> "_builtin_refname"]
                    ELSE IF rs_node.core_def
                    THEN [kind |-> "definition", of |-> "refname"]
                    ELSE IF rs_node.scope > 0
                    THEN [kind |-> "scope", of |-> "refname"]
                    ELSE [kind |-> "Name", of |-> "refname"]

====
